---- MODULE Spec2Model ----
(***************************************************************************)
(* Model of the stocker backtest simulator (src/src/backtester.py) and of  *)
(* the strategy signal generators (src/src/strategies.py,                  *)
(* src/src/strategy.py), with the metrics of _calculate_metrics and the    *)
(* construction of a Backtester (get_strategy).                            *)
(*                                                                         *)
(* Numbers.  Prices and cash are integers.  The fractions of config.py     *)
(* (STOP_LOSS_PCT, TAKE_PROFIT_PCT, RISK_PER_TRADE) are kept in percent,   *)
(* so 0.02 is 2, and every comparison or quotient of the source is written *)
(* with both sides multiplied by 100: the arithmetic is the exact          *)
(* arithmetic of the source's expressions.  Python's int() truncates       *)
(* towards zero (IntTrunc).                                                *)
(*                                                                         *)
(* position is a sequence: <<>> is Python's None, <<p>> an open position.  *)
(* A bar's timestamp (the DataFrame index) is the field idx of its row.    *)
(***************************************************************************)
EXTENDS Integers, Sequences, FiniteSets, TLC

VARIABLES
    initial_capital,   \* Backtester.initial_capital
    config,            \* Backtester.config (the trading parameters of Config)
    df,                \* rows of the analysed frame the loop has read so far
    pc,                \* position of _simulate_trades in its code
    capital,           \* local capital
    position,          \* local position: <<>> (None) or <<[shares, entry_price, entry_time]>>
    trades,            \* local trades (the ledger)
    portfolio_values,  \* local portfolio_values, one value per bar
    strategy,          \* signal generator under evaluation
    indicators,        \* one row of indicator columns given to generate_signals
    signal,            \* the 'signal' column of that row once generated
    results,           \* <<>> or <<the dict returned by _calculate_metrics>>
    strategy_name,     \* argument strategy_name of Backtester(...)
    strategy_arg,      \* argument strategy: <<>> (None) or <<NAME of the instance>>
    backtester,        \* outcome of Backtester(...): state new / ok / ValueError
    frame,             \* the frame of bars given to analyze
    analyzed,          \* outcome of analyze: state new / ok / ValueError, and its rows
    symbols,           \* argument symbols of a scan
    scan,              \* the scanning function
    scan_pc,           \* position of the scan: idle / loop / returned
    scan_i,            \* index in symbols of the loop's current symbol
    scan_results,      \* the lists the scan builds, as sequences of entries
    scan_log,          \* one entry per symbol the loop has handled
    memory_cache,      \* DataCache.memory_cache: symbol -> the frame it holds
    cache_metadata,    \* DataCache.cache_metadata: symbol -> fetched_at, period
    now,               \* datetime.now(), in minutes
    period,            \* argument period of fetch_and_cache
    fetch_no,          \* the number of this call of fetch_and_cache on the DataCache
    fetch_started,     \* the time at which this call began
    first_fetch,       \* <<>> or <<the arguments and the log of the first call>>
    bars,              \* the analysed frame given to _simulate_trades, when fixed beforehand
    run_no,            \* 1 in the first _simulate_trades call on the Backtester, 2 in the second
    first_run,         \* <<>> or <<what the first call returned>>
    metrics,           \* MonitoringSystem.metrics
    errors,            \* MonitoringSystem.errors: the entries appended, by thread
    mon_threads,       \* per thread: its position in a record_* call and its operand stack
    mon_calls,         \* per method: the number of completed calls
    trader_pc,         \* Trader.check_and_execute: idle / ready / returned
    market_open,       \* what broker.is_market_open() returns
    dry_run,           \* argument dry_run
    signal_info,       \* what analyze_current_market() returns
    symbol_position,   \* <<>> (None) or <<the broker's position in the symbol>>
    account_info,      \* what broker.get_account_info() returns
    result,            \* <<>> or <<the dict check_and_execute returned>>
    calls,             \* the calls check_and_execute made, in order
    vframe,            \* the DataFrame given to OHLCVValidator
    v_pc,              \* idle / new / strict / lenient / done
    strict_outcome,    \* <<>> or <<what validate(df, strict=True) did>>
    lenient_outcome,   \* <<>> or <<what validate(df, strict=False) did>>
    is_valid_outcome,  \* <<>> or <<what is_valid(df) returned>>
    warnings,          \* MonitoringSystem.warnings: category -> list of entries
    timings,           \* MonitoringSystem.timings: operation -> list of durations
    last_call          \* the method of MonitoringSystem that returned last

vars == <<initial_capital, config, df, pc, capital, position, trades,
          portfolio_values, strategy, indicators, signal, results,
          strategy_name, strategy_arg, backtester, frame, analyzed,
          symbols, scan, scan_pc, scan_i, scan_results, scan_log, memory_cache,
          cache_metadata, now, period, fetch_no, fetch_started, first_fetch,
          bars, run_no, first_run, metrics, errors, mon_threads, mon_calls,
          trader_pc, market_open, dry_run, signal_info, symbol_position,
          account_info, result, calls,
          vframe, v_pc, strict_outcome, lenient_outcome, is_valid_outcome,
          warnings, timings, last_call>>

simVars == <<initial_capital, config, df, pc, capital, position, trades,
             portfolio_values>>

sigVars == <<strategy, indicators, signal>>

ctorVars == <<strategy_name, strategy_arg, backtester>>

anaVars == <<frame, analyzed>>

cacheVars == <<memory_cache, cache_metadata, now, period, fetch_no, fetch_started,
               first_fetch>>

scanVars == <<symbols, scan, scan_pc, scan_i, scan_results, scan_log, cacheVars>>

twiceVars == <<bars, run_no, first_run>>

monVars == <<metrics, errors, mon_threads, mon_calls, warnings, timings, last_call>>

traderVars == <<trader_pc, market_open, dry_run, signal_info, symbol_position,
                account_info, result, calls>>

valVars == <<vframe, v_pc, strict_outcome, lenient_outcome, is_valid_outcome>>

extVars == <<anaVars, scanVars, twiceVars, monVars, traderVars, valVars>>

-----------------------------------------------------------------------------
(* Bounds and input domains *)

MaxBars == 3

Closes == {0, 98, 100, 104}

Signals == {-1, 0, 1}

InitialCapitals == {50, 500, 1000, 10000}

MAX_POSITION_SIZE == 1000

STOP_LOSS_PCT == 2

Configs ==
    [MAX_POSITION_SIZE : {MAX_POSITION_SIZE},
     RISK_PER_TRADE    : {2, 4},
     STOP_LOSS_PCT     : {STOP_LOSS_PCT},
     TAKE_PROFIT_PCT   : {-2, 4}]

-----------------------------------------------------------------------------
(* Helpers of the simulator *)

Abs(x) == IF x < 0 THEN -x ELSE x

\* int(a / b) of Python for integers a, b with b # 0: truncation towards zero
IntTrunc(a, b) ==
    IF (a >= 0) = (b > 0) THEN Abs(a) \div Abs(b) ELSE -(Abs(a) \div Abs(b))

Min(a, b) == IF a <= b THEN a ELSE b

IsFlat(pos) == pos = <<>>

\* the row the loop is at
Row == df[Len(df)]

\* current_price <= stop_loss, stop_loss = entry_price * (1 - STOP_LOSS_PCT)
StopLossHit(pos, current_price) ==
    current_price * 100 <= pos.entry_price * (100 - config.STOP_LOSS_PCT)

TakeProfitHitStrict(pos, current_price) ==
    current_price * 100 > pos.entry_price * (100 + config.TAKE_PROFIT_PCT)

\* current_price >= take_profit, take_profit = entry_price * (1 + TAKE_PROFIT_PCT)
TakeProfitHit(pos, current_price) ==
    current_price * 100 >= pos.entry_price * (100 + config.TAKE_PROFIT_PCT)

ExitReasonFlipped(pos, current_price) ==
    IF TakeProfitHit(pos, current_price) THEN "take_profit" ELSE "stop_loss"

\* 'stop_loss' if current_price <= stop_loss else 'take_profit'
ExitReason(pos, current_price) ==
    IF StopLossHit(pos, current_price) THEN "stop_loss" ELSE "take_profit"

MakeTradePnlPerShare(pos, exit_time, exit_price, reason) ==
    [entry_time  |-> pos.entry_time,
     exit_time   |-> exit_time,
     entry_price |-> pos.entry_price,
     exit_price  |-> exit_price,
     shares      |-> pos.shares,
     pnl         |-> exit_price - pos.entry_price,
     return_pct  |-> [num |-> (exit_price - pos.entry_price) * 100,
                      den |-> pos.entry_price],
     exit_reason |-> reason]

MakeTradeEntryAtExit(pos, exit_time, exit_price, reason) ==
    [entry_time  |-> exit_time,
     exit_time   |-> exit_time,
     entry_price |-> pos.entry_price,
     exit_price  |-> exit_price,
     shares      |-> pos.shares,
     pnl         |-> (exit_price - pos.entry_price) * pos.shares,
     return_pct  |-> [num |-> (exit_price - pos.entry_price) * 100,
                      den |-> pos.entry_price],
     exit_reason |-> reason]

\* the dict appended to trades when a position is closed
MakeTrade(pos, exit_time, exit_price, reason) ==
    [entry_time  |-> pos.entry_time,
     exit_time   |-> exit_time,
     entry_price |-> pos.entry_price,
     exit_price  |-> exit_price,
     shares      |-> pos.shares,
     pnl         |-> (exit_price - pos.entry_price) * pos.shares,
     return_pct  |-> [num |-> (exit_price - pos.entry_price) * 100,
                      den |-> pos.entry_price],
     exit_reason |-> reason]

\* risk_per_share = current_price - current_price * (1 - STOP_LOSS_PCT), times 100
RiskPerShare100(current_price) ==
    current_price * 100 - current_price * (100 - config.STOP_LOSS_PCT)

\* risk_amount = capital * RISK_PER_TRADE, times 100
RiskAmount100(cap) == cap * config.RISK_PER_TRADE

SizedSharesUncapped(cap, current_price) ==
    IntTrunc(RiskAmount100(cap), RiskPerShare100(current_price))

\* shares = min(int(risk_amount / risk_per_share), int(MAX_POSITION_SIZE / current_price))
SizedShares(cap, current_price) ==
    Min(IntTrunc(RiskAmount100(cap), RiskPerShare100(current_price)),
        IntTrunc(config.MAX_POSITION_SIZE, current_price))

EntryGuardAnyState(sig, pos) == sig = 1

EntryGuardOnHold(sig, pos) == sig >= 0 /\ IsFlat(pos)

EntryGuardNoReentry(sig, pos) ==
    /\ sig = 1
    /\ IsFlat(pos)
    /\ (trades = <<>> \/ trades[Len(trades)].exit_time # df[Len(df)].idx)

\* signal == 1 and position is None
EntryGuard(sig, pos) == sig = 1 /\ IsFlat(pos)

OpenGuardNonNegative(shares, cap, current_price) ==
    shares >= 0 /\ cap >= shares * current_price

OpenGuardAffordOnly(shares, cap, current_price) ==
    cap >= shares * current_price

OpenGuardSharesOnly(shares, cap, current_price) == shares > 0

\* shares > 0 and capital >= shares * current_price
OpenGuard(shares, cap, current_price) ==
    shares > 0 /\ cap >= shares * current_price

\* signal == -1 and position is not None
SellGuard(sig, pos) == sig = -1 /\ ~IsFlat(pos)

PortfolioValueCashOnly(cap, pos, current_price) == cap

\* portfolio_value = capital (+ shares * current_price if a position is open)
PortfolioValue(cap, pos, current_price) ==
    IF IsFlat(pos) THEN cap ELSE cap + pos[1].shares * current_price

FinalPriceFirstBar == df[1].close

\* final_price = df.iloc[-1]['close']
FinalPrice == df[Len(df)].close

EndReasonOfSpec == "end_of_period"

\* the exit_reason of the trade made by the close after the loop
EndReason == "end_of_backtest"

-----------------------------------------------------------------------------
(* _simulate_trades *)

SimInit ==
    /\ initial_capital \in InitialCapitals
    /\ config \in Configs
    /\ df = <<>>
    /\ pc = "loop"
    /\ capital = initial_capital
    /\ position = <<>>
    /\ trades = <<>>
    /\ portfolio_values = <<>>

\* for idx, row in df.iterrows(): the next row, with its close and signal
NextRow ==
    /\ pc = "loop"
    /\ Len(df) < MaxBars
    /\ \E c \in Closes, s \in Signals :
          df' = Append(df, [idx |-> Len(df) + 1, close |-> c, signal |-> s])
    /\ pc' = "check_exit"
    /\ UNCHANGED <<initial_capital, config, capital, position, trades,
                   portfolio_values, sigVars, results, ctorVars, extVars>>

\* the frame has no further row
EndOfRows ==
    /\ pc = "loop"
    /\ pc' = "close_remaining"
    /\ UNCHANGED <<initial_capital, config, df, capital, position, trades,
                   portfolio_values, sigVars, results, ctorVars, extVars>>

\* Check stop loss and take profit for existing position
CheckExit ==
    /\ pc = "check_exit"
    /\ IF ~IsFlat(position)
          /\ (StopLossHit(position[1], Row.close) \/ TakeProfitHit(position[1], Row.close))
       THEN /\ capital' = capital + Row.close * position[1].shares
            /\ trades' = Append(trades,
                                MakeTrade(position[1], Row.idx, Row.close,
                                          ExitReason(position[1], Row.close)))
            /\ position' = <<>>
       ELSE UNCHANGED <<capital, trades, position>>
    /\ pc' = "entry"
    /\ UNCHANGED <<initial_capital, config, df, portfolio_values, sigVars, results, ctorVars, extVars>>

\* Open new position on buy signal / elif: close position on sell signal
EntryOrSell ==
    /\ pc = "entry"
    /\ IF EntryGuard(Row.signal, position)
       THEN IF RiskPerShare100(Row.close) > 0
               /\ OpenGuard(SizedShares(capital, Row.close), capital, Row.close)
            THEN /\ capital' = capital - SizedShares(capital, Row.close) * Row.close
                 /\ position' = <<[shares      |-> SizedShares(capital, Row.close),
                                   entry_price |-> Row.close,
                                   entry_time  |-> Row.idx]>>
                 /\ UNCHANGED trades
            ELSE UNCHANGED <<capital, position, trades>>
       ELSE IF SellGuard(Row.signal, position)
            THEN /\ capital' = capital + Row.close * position[1].shares
                 /\ trades' = Append(trades,
                                     MakeTrade(position[1], Row.idx, Row.close, "signal"))
                 /\ position' = <<>>
            ELSE UNCHANGED <<capital, position, trades>>
    /\ pc' = "equity"
    /\ UNCHANGED <<initial_capital, config, df, portfolio_values, sigVars, results, ctorVars, extVars>>

\* Calculate portfolio value; portfolio_values.append(portfolio_value)
RecordEquity ==
    /\ pc = "equity"
    /\ portfolio_values' =
          Append(portfolio_values, PortfolioValue(capital, position, Row.close))
    /\ pc' = "loop"
    /\ UNCHANGED <<initial_capital, config, df, capital, position, trades, sigVars, results, ctorVars, extVars>>

\* Close any remaining open position at the end of backtest; return
CloseRemaining ==
    /\ pc = "close_remaining"
    /\ IF ~IsFlat(position)
       THEN /\ capital' = capital + FinalPrice * position[1].shares
            /\ trades' = Append(trades,
                                MakeTrade(position[1], df[Len(df)].idx, FinalPrice,
                                          EndReason))
            /\ portfolio_values' =
                  [portfolio_values EXCEPT ![Len(portfolio_values)] =
                      capital + FinalPrice * position[1].shares]
       ELSE UNCHANGED <<capital, trades, portfolio_values>>
    /\ pc' = "done"
    \* the local position is not reassigned; it dies with the return
    /\ UNCHANGED <<initial_capital, config, df, position, sigVars, results, ctorVars, extVars>>

-----------------------------------------------------------------------------
(* Signal generators: generate_signals of the three profiles and of         *)
(* TradingStrategy, on one row of indicator columns.  A column value is a   *)
(* float, kept as a fraction [num, den] with den > 0.  NaN, the undefined   *)
(* value of pandas, is the fraction with den = 0: every comparison with it  *)
(* is False.                                                                *)

NaN == [num |-> 0, den |-> 0]

\* the float of an integer literal
Num(k) == [num |-> k, den |-> 1]

IsNaN(a) == a.den = 0

Strategies == {"conservative", "balanced", "aggressive", "trading_strategy"}

RsiValues == {NaN} \cup {Num(v) : v \in {20, 28, 33, 35, 38, 50, 68, 72, 80}}

MaValues == {NaN} \cup {Num(v) : v \in {100, 101}}

CloseValues == {Num(v) : v \in {100, 101, 102}}

IndicatorRows ==
    [rsi : RsiValues, rsi_prev : RsiValues,
     fast_ma : MaValues, slow_ma : MaValues,
     fast_ma_prev : MaValues, slow_ma_prev : MaValues,
     close : CloseValues]

LeNotGt(a, b) == ~(~IsNaN(a) /\ ~IsNaN(b) /\ a.num * b.den > b.num * a.den)

\* elementwise comparisons of pandas
Le(a, b) == ~IsNaN(a) /\ ~IsNaN(b) /\ a.num * b.den <= b.num * a.den
Gt(a, b) == ~IsNaN(a) /\ ~IsNaN(b) /\ a.num * b.den > b.num * a.den
Lt(a, b) == ~IsNaN(a) /\ ~IsNaN(b) /\ a.num * b.den < b.num * a.den
Ge(a, b) == ~IsNaN(a) /\ ~IsNaN(b) /\ a.num * b.den >= b.num * a.den

RSI_OVERSOLD_OfConfig(st) == 30

\* class attributes RSI_OVERSOLD / RSI_OVERBOUGHT (Config's for TradingStrategy)
RSI_OVERSOLD(st) ==
    CASE st = "conservative"     -> 25
      [] st = "balanced"         -> 30
      [] st = "aggressive"       -> 35
      [] st = "trading_strategy" -> 30

RSI_OVERBOUGHT(st) ==
    CASE st = "conservative"     -> 75
      [] st = "balanced"         -> 70
      [] st = "aggressive"       -> 65
      [] st = "trading_strategy" -> 70

\* rsi_recovery of Balanced, Aggressive and TradingStrategy
RsiRecovery(st, r) ==
    /\ Gt(r.rsi, Num(RSI_OVERSOLD(st)))
    /\ Le(r.rsi_prev, Num(RSI_OVERSOLD(st)))
    /\ Gt(r.fast_ma, r.slow_ma)

MaCrossoverBalancedNoFloor(st, r) ==
    /\ Gt(r.fast_ma, r.slow_ma)
    /\ Le(r.fast_ma_prev, r.slow_ma_prev)
    /\ Lt(r.rsi, Num(RSI_OVERBOUGHT(st)))

\* ma_crossover of Balanced and TradingStrategy
MaCrossoverBalanced(st, r) ==
    /\ Gt(r.fast_ma, r.slow_ma)
    /\ Le(r.fast_ma_prev, r.slow_ma_prev)
    /\ Lt(r.rsi, Num(RSI_OVERBOUGHT(st)))
    /\ Gt(r.rsi, Num(RSI_OVERSOLD(st)))

MaCrossoverAggressiveHealthy(st, r) ==
    /\ Gt(r.fast_ma, r.slow_ma)
    /\ Le(r.fast_ma_prev, r.slow_ma_prev)
    /\ Lt(r.rsi, Num(RSI_OVERBOUGHT(st)))
    /\ Gt(r.rsi, Num(RSI_OVERSOLD(st)))

\* ma_crossover of Aggressive
MaCrossoverAggressive(st, r) ==
    /\ Gt(r.fast_ma, r.slow_ma)
    /\ Le(r.fast_ma_prev, r.slow_ma_prev)
    /\ Lt(r.rsi, Num(RSI_OVERBOUGHT(st)))

\* strong_momentum of Aggressive
StrongMomentum(st, r) ==
    /\ Gt(r.fast_ma, r.slow_ma)
    /\ Gt(r.close, r.fast_ma)
    /\ Gt(r.rsi, Num(40)) /\ Lt(r.rsi, Num(RSI_OVERBOUGHT(st)))
    /\ Gt(r.rsi, r.rsi_prev)

\* bearish crossover shared by every sell condition
BearishCrossover(r) ==
    Lt(r.fast_ma, r.slow_ma) /\ Ge(r.fast_ma_prev, r.slow_ma_prev)

BuyCondition(st, r) ==
    CASE st = "conservative" ->
            /\ Gt(r.rsi, Num(RSI_OVERSOLD(st)))
            /\ Le(r.rsi_prev, Num(RSI_OVERSOLD(st)))
            /\ Gt(r.fast_ma, r.slow_ma)
            /\ Le(r.fast_ma_prev, r.slow_ma_prev)
            /\ Gt(r.close, r.slow_ma)
      [] st \in {"balanced", "trading_strategy"} ->
            /\ (RsiRecovery(st, r) \/ MaCrossoverBalanced(st, r))
            /\ Gt(r.close, r.slow_ma)
      [] st = "aggressive" ->
            /\ (RsiRecovery(st, r) \/ MaCrossoverAggressive(st, r) \/ StrongMomentum(st, r))
            /\ Gt(r.close, r.slow_ma)

SellCondition(st, r) ==
    CASE st \in {"conservative", "balanced", "trading_strategy"} ->
            Gt(r.rsi, Num(RSI_OVERBOUGHT(st))) \/ BearishCrossover(r)
      [] st = "aggressive" ->
            \/ Gt(r.rsi, Num(RSI_OVERBOUGHT(st)))
            \/ BearishCrossover(r)
            \/ Lt(r.rsi, Num(RSI_OVERSOLD(st)))

AssignSignalsBuyLast(buy, sell) ==
    LET s0 == 0
        s1 == IF sell THEN -1 ELSE s0
        s2 == IF buy THEN 1 ELSE s1
    IN  s2

\* df['signal'] = 0; df.loc[buy_condition, 'signal'] = 1;
\* df.loc[sell_condition, 'signal'] = -1
AssignSignals(buy, sell) ==
    LET s0 == 0
        s1 == IF buy THEN 1 ELSE s0
        s2 == IF sell THEN -1 ELSE s1
    IN  s2

SigInit ==
    /\ strategy \in Strategies
    /\ indicators \in IndicatorRows
    /\ signal = <<>>

\* generate_signals: the 'signal' column of the row
GenerateSignals ==
    /\ signal = <<>>
    /\ signal' = <<AssignSignals(BuyCondition(strategy, indicators),
                                 SellCondition(strategy, indicators))>>
    /\ UNCHANGED <<strategy, indicators, simVars, results, ctorVars, extVars>>

-----------------------------------------------------------------------------
(* _calculate_metrics.  A float that need not be an integer is kept as a    *)
(* fraction [num, den] with den > 0; fractions are compared by cross        *)
(* multiplication.                                                          *)

MaxLedger == 2

MaxCurve == 3

Frac(n, d) == [num |-> n, den |-> d]

FracAdd(a, b) == Frac(a.num * b.den + b.num * a.den, a.den * b.den)

FracLess(a, b) == a.num * b.den < b.num * a.den

WinningTradesOrEven(trds) == {i \in 1..Len(trds) : trds[i].pnl >= 0}

\* winning_trades = trades_df[trades_df['pnl'] > 0]
WinningTrades(trds) == {i \in 1..Len(trds) : trds[i].pnl > 0}

\* win_rate = len(winning_trades) / len(trades_df) * 100
WinRate(trds) == Frac(Cardinality(WinningTrades(trds)) * 100, Len(trds))

RECURSIVE SumReturnPct(_, _)
\* sum of trades_df['return_pct'] over the first k trades
SumReturnPct(trds, k) ==
    IF k = 0 THEN Frac(0, 1)
    ELSE FracAdd(SumReturnPct(trds, k - 1), trds[k].return_pct)

\* avg_return = trades_df['return_pct'].mean()
AvgReturn(trds) ==
    LET total == SumReturnPct(trds, Len(trds))
    IN  Frac(total.num, total.den * Len(trds))

MaxOfSeries(pv, t) ==
    CHOOSE m \in {pv[i] : i \in 1..Len(pv)} : \A i \in 1..Len(pv) : pv[i] <= m

\* running_max = portfolio_value.expanding().max(), at position t
RunningMax(pv, t) ==
    CHOOSE m \in {pv[i] : i \in 1..t} : \A i \in 1..t : pv[i] <= m

\* drawdown = (portfolio_value - running_max) / running_max * 100, at position t
Drawdown(pv, t) ==
    Frac((pv[t] - RunningMax(pv, t)) * 100, RunningMax(pv, t))

\* max_drawdown = drawdown.min()
MaxDrawdown(pv) ==
    LET t == CHOOSE t \in 1..Len(pv) :
                 \A u \in 1..Len(pv) : ~FracLess(Drawdown(pv, u), Drawdown(pv, t))
    IN  Drawdown(pv, t)

NoTradeResultShort(pv, cap) ==
    [initial_capital  |-> cap,
     final_capital    |-> cap,
     total_return     |-> 0,
     total_return_pct |-> Frac(0, 1),
     num_trades       |-> 0,
     win_rate         |-> Frac(0, 1),
     trades           |-> <<>>,
     portfolio_value  |-> pv]

\* the dict returned when trades is empty
NoTradeResult(pv, cap) ==
    [initial_capital  |-> cap,
     final_capital    |-> cap,
     total_return     |-> 0,
     total_return_pct |-> Frac(0, 1),
     num_trades       |-> 0,
     win_rate         |-> Frac(0, 1),
     avg_return       |-> Frac(0, 1),
     max_drawdown     |-> Frac(0, 1),
     trades           |-> <<>>,
     portfolio_value  |-> pv]

\* the dict returned when there are trades
TradeResult(trds, pv, cap) ==
    [initial_capital  |-> cap,
     final_capital    |-> pv[Len(pv)],
     total_return     |-> pv[Len(pv)] - cap,
     total_return_pct |-> Frac((pv[Len(pv)] - cap) * 100, cap),
     num_trades       |-> Len(trds),
     win_rate         |-> WinRate(trds),
     avg_return       |-> AvgReturn(trds),
     max_drawdown     |-> MaxDrawdown(pv),
     trades           |-> trds,
     portfolio_value  |-> pv]

\* _calculate_metrics(trades, portfolio_value, df)
Metrics(trds, pv, cap) ==
    IF trds = <<>> THEN NoTradeResult(pv, cap) ELSE TradeResult(trds, pv, cap)

\* results = self._calculate_metrics(trades, portfolio_value, analyzed_df); return
CalculateMetrics ==
    /\ pc = "done"
    /\ results' = <<Metrics(trades, portfolio_values, initial_capital)>>
    /\ pc' = "returned"
    /\ UNCHANGED <<initial_capital, config, df, capital, position, trades,
                   portfolio_values, sigVars, ctorVars, extVars>>

\* trades handed to _calculate_metrics directly, as the tests do
SampleTrades ==
    {MakeTrade([shares |-> 10, entry_price |-> 100, entry_time |-> 1],
               2, x, "signal") : x \in {98, 100, 102}}

Ledgers == UNION {[1..n -> SampleTrades] : n \in 0..MaxLedger}

EquityValues == {9980, 10000, 10020}

Curves == UNION {[1..n -> EquityValues] : n \in 1..MaxCurve}

\* a ledger and an equity curve given to _calculate_metrics; a run without
\* trades has the constant curve of its initial capital
MetricsInit ==
    /\ initial_capital = 10000
    /\ config = [MAX_POSITION_SIZE |-> MAX_POSITION_SIZE, RISK_PER_TRADE |-> 2,
                 STOP_LOSS_PCT |-> STOP_LOSS_PCT, TAKE_PROFIT_PCT |-> 4]
    /\ df = <<>>
    /\ pc = "done"
    /\ capital = initial_capital
    /\ position = <<>>
    /\ trades \in Ledgers
    /\ portfolio_values \in Curves
    /\ trades = <<>> =>
          \A i \in 1..Len(portfolio_values) : portfolio_values[i] = initial_capital
    /\ results = <<>>

-----------------------------------------------------------------------------
(* Backtester.__init__ and get_strategy *)

StrategyNames ==
    {"conservative", "balanced", "aggressive", "Balanced", "AGGRESSIVE", "momentum", ""}

\* str.lower() on the names of StrategyNames
Lower(name) ==
    CASE name = "Balanced"   -> "balanced"
      [] name = "AGGRESSIVE" -> "aggressive"
      [] OTHER               -> name

\* the registry: name -> NAME of the registered class
STRATEGIES ==
    [conservative |-> "Conservative", balanced |-> "Balanced", aggressive |-> "Aggressive"]

DEFAULT_STRATEGY == "balanced"

NameUnchanged(name) == name

\* name = name.lower()
NormalizedName(name) == Lower(name)

\* get_strategy(name, config): the instance, or ValueError
GetStrategy(name) ==
    IF NormalizedName(name) \notin DOMAIN STRATEGIES
    THEN [state |-> "ValueError", strategy |-> "none"]
    ELSE [state |-> "ok", strategy |-> STRATEGIES[NormalizedName(name)]]

\* Config(): the four parameters read from the environment, any float
CtorConfigs ==
    [MAX_POSITION_SIZE : {0, MAX_POSITION_SIZE},
     RISK_PER_TRADE    : {0, 2},
     STOP_LOSS_PCT     : {0, STOP_LOSS_PCT},
     TAKE_PROFIT_PCT   : {-2, 4}]

CtorInit ==
    /\ strategy_name \in StrategyNames
    /\ strategy_arg \in {<<>>} \cup {<<STRATEGIES[n]>> : n \in DOMAIN STRATEGIES}
    /\ backtester = [state |-> "new", strategy |-> "none"]
    /\ initial_capital = 10000
    /\ config \in CtorConfigs
    /\ df = <<>>
    /\ pc = "idle"
    /\ capital = initial_capital
    /\ position = <<>>
    /\ trades = <<>>
    /\ portfolio_values = <<>>
    /\ results = <<>>

\* the Backtester of a simulator run: Backtester(initial_capital)
CtorIdle ==
    /\ strategy_name = DEFAULT_STRATEGY
    /\ strategy_arg = <<>>
    /\ backtester = [state |-> "ok", strategy |-> "Balanced"]

\* Backtester.__init__: self.strategy = strategy or get_strategy(strategy_name, self.config)
Construct ==
    /\ backtester.state = "new"
    /\ backtester' = IF strategy_arg # <<>>
                     THEN [state |-> "ok", strategy |-> strategy_arg[1]]
                     ELSE GetStrategy(strategy_name)
    /\ UNCHANGED <<simVars, sigVars, results, strategy_name, strategy_arg, extVars>>

\* run_backtest up to the simulation: fetch, date filter, empty check, analyze
RunBacktest ==
    /\ backtester.state = "ok"
    /\ pc = "idle"
    /\ \E empty \in BOOLEAN :
          pc' = IF empty THEN "no_data_error" ELSE "loop"
    /\ UNCHANGED <<initial_capital, config, df, capital, position, trades,
                   portfolio_values, sigVars, results, ctorVars, extVars>>

-----------------------------------------------------------------------------
(* The Indicator Engine: calculate_indicators and analyze of TradingStrategy *)
(* and of StrategyProfile, on a frame of bars.  A frame has its columns,    *)
(* its index (the timestamps, in row order) and its close column.  The      *)
(* windows of the indicators are scaled down so that frames of MaxFrame     *)
(* bars have defined indicators.                                            *)

MaxFrame == 5

RSI_PERIOD == 2

FAST_MA_PERIOD == 2

SLOW_MA_PERIOD == 3

FrameCloses == {98, 100, 104}

OHLCV == {"open", "high", "low", "close", "volume"}

ColumnSets == {OHLCV, OHLCV \ {"volume"}, OHLCV \ {"open"}, OHLCV \ {"close"}, {}}

\* the index of a frame of n rows: increasing timestamps, a repeated
\* timestamp, or decreasing timestamps
IndexKinds(n) ==
    {[i \in 1..n |-> i],
     [i \in 1..n |-> IF i = 1 THEN 1 ELSE i - 1],
     [i \in 1..n |-> n + 1 - i]}

Frames ==
    UNION {[columns : ColumnSets, index : IndexKinds(n), close : [1..n -> FrameCloses]]
              : n \in 0..MaxFrame}

\* required_columns of TradingStrategy / required_cols of StrategyProfile
RequiredColumns(st) ==
    IF st = "trading_strategy" THEN OHLCV ELSE {"close", "high", "low"}

\* df.empty: no row or no column
IsEmpty(f) == Len(f.index) = 0 \/ f.columns = {}

RECURSIVE SumOf(_, _, _)
\* col[a] + ... + col[b]
SumOf(col, a, b) == IF a > b THEN 0 ELSE col[b] + SumOf(col, a, b - 1)

RECURSIVE Pow(_, _)
Pow(w, n) == IF n = 0 THEN 1 ELSE w * Pow(w, n - 1)

\* SMAIndicator(close, window).sma_indicator(): rolling mean, NaN before the
\* window is full
SMA(close, w, t) ==
    IF t < w THEN NaN ELSE Frac(SumOf(close, t - w + 1, t), w)

\* diff.where(diff > 0, 0.0) and -diff.where(diff < 0, 0.0); the first diff is NaN
UpDirection(close) ==
    [t \in 1..Len(close) |->
        IF t > 1 /\ close[t] > close[t - 1] THEN close[t] - close[t - 1] ELSE 0]

DownDirectionSigned(close) ==
    [t \in 1..Len(close) |->
        IF t > 1 /\ close[t] < close[t - 1] THEN close[t] - close[t - 1] ELSE 0]

DownDirection(close) ==
    [t \in 1..Len(close) |->
        IF t > 1 /\ close[t] < close[t - 1] THEN close[t - 1] - close[t] ELSE 0]

RECURSIVE Ewm(_, _, _)
\* x.ewm(alpha=1/w, adjust=False).mean() at row t, multiplied by w^(t-1):
\* y[1] = x[1], y[t] = x[t]/w + (1 - 1/w) * y[t-1]
Ewm(x, w, t) ==
    IF t = 1 THEN x[1] ELSE Pow(w, t - 2) * x[t] + (w - 1) * Ewm(x, w, t - 1)

\* RSIIndicator(close, window).rsi(): 100 where emadn = 0, else
\* 100 - 100 / (1 + emaup / emadn); NaN before min_periods = window rows
RSI(close, w, t) ==
    LET emaup == Ewm(UpDirection(close), w, t)
        emadn == Ewm(DownDirection(close), w, t)
    IN  IF t < w THEN NaN
        ELSE IF emadn = 0 THEN Num(100)
        ELSE Frac(100 * emaup, emaup + emadn)

ShiftForward(col, t) == IF t = Len(col) THEN NaN ELSE col[t + 1]

\* col.shift(1): the value of the previous row, NaN on the first row
Shift(col, t) == IF t = 1 THEN NaN ELSE col[t - 1]

\* calculate_indicators: the indicator columns of row t
IndicatorRow(close, t) ==
    LET n == Len(close)
        rsi == [u \in 1..n |-> RSI(close, RSI_PERIOD, u)]
        fast_ma == [u \in 1..n |-> SMA(close, FAST_MA_PERIOD, u)]
        slow_ma == [u \in 1..n |-> SMA(close, SLOW_MA_PERIOD, u)]
    IN  [rsi |-> rsi[t], rsi_prev |-> Shift(rsi, t),
         fast_ma |-> fast_ma[t], slow_ma |-> slow_ma[t],
         fast_ma_prev |-> Shift(fast_ma, t), slow_ma_prev |-> Shift(slow_ma, t),
         close |-> Num(close[t])]

\* analyze: calculate_indicators, then generate_signals; ValueError on an
\* empty frame or a missing required column
Analyze(st, f) ==
    IF IsEmpty(f) \/ ~(RequiredColumns(st) \subseteq f.columns)
    THEN [state |-> "ValueError", rows |-> <<>>]
    ELSE [state |-> "ok",
          rows  |-> [t \in 1..Len(f.close) |->
                       LET r == IndicatorRow(f.close, t)
                       IN  [idx |-> f.index[t], indicators |-> r,
                            signal |-> AssignSignals(BuyCondition(st, r),
                                                     SellCondition(st, r))]]]

AnaInit ==
    /\ strategy \in Strategies
    /\ frame \in Frames
    /\ analyzed = [state |-> "new", rows |-> <<>>]

\* no frame under analysis
AnaIdle ==
    /\ frame = [columns |-> OHLCV, index |-> <<>>, close |-> <<>>]
    /\ analyzed = [state |-> "new", rows |-> <<>>]

\* strategy.analyze(df)
AnalyzeFrame ==
    /\ analyzed.state = "new"
    /\ analyzed' = Analyze(strategy, frame)
    /\ UNCHANGED <<simVars, sigVars, results, ctorVars, frame, scanVars, twiceVars, monVars, traderVars, valVars>>

-----------------------------------------------------------------------------
(* Multi-symbol scans: identify_potential_stocks, analyze_for_tomorrow and  *)
(* DataCache.fetch_and_cache.  One step is one iteration of the loop over   *)
(* the symbols: the body of its try, or its except handler.  scan_log has   *)
(* one entry per line the loop prints.                                      *)

MaxSymbols == 3

SymbolUniverse == {"AAPL", "MSFT", "NVDA", "TSLA"}

Scans == {"identify_potential_stocks", "analyze_for_tomorrow", "fetch_and_cache"}

SymbolLists ==
    UNION {{l \in [1..n -> SymbolUniverse] : \A i, j \in 1..n : i # j => l[i] # l[j]}
              : n \in 0..MaxSymbols}

Strengths == {10, 50}

\* results = [] / trading_plan's three lists / results = {}
EmptyResults ==
    [results |-> <<>>, buy_candidates |-> <<>>, sell_candidates |-> <<>>,
     watch_list |-> <<>>]

Entry(symbol, value, strength) ==
    [symbol |-> symbol, signal_value |-> value, signal_strength |-> strength]

\* self.memory_cache = {}; self.cache_metadata = {}
EmptyDict == [s \in {} |-> 0]

Periods == {30, 60}

MaxTime == 20

\* the minutes between two readings of the clock
Ticks == {5}

MaxFetches == 2

max_age_minutes == 15

\* data_fetcher.fetch_data(symbol, period=period), called at time at
FetchData(symbol, per, at) == [symbol |-> symbol, period |-> per, at |-> at]

\* {'fetched_at': datetime.now().isoformat(), 'period': period, ...}; the
\* time is written with isoformat and read back with fromisoformat, which
\* return the datetime they were given
Metadata(per, at) == [fetched_at |-> at, period |-> per]

IsCacheValidAnyPeriod(symbol, per) ==
    /\ symbol \in DOMAIN memory_cache
    /\ symbol \in DOMAIN cache_metadata
    /\ now - cache_metadata[symbol].fetched_at <= max_age_minutes

\* _is_cache_valid(symbol, period)
IsCacheValid(symbol, per) ==
    /\ symbol \in DOMAIN memory_cache
    /\ symbol \in DOMAIN cache_metadata
    /\ cache_metadata[symbol].period = per
    /\ ~(now - cache_metadata[symbol].fetched_at > max_age_minutes)

AbortAfterFailure(i) == Len(symbols) + 1

\* except Exception as e: print(...); continue
ContinueAfterFailure(i) == i + 1

ScanInit ==
    /\ symbols \in SymbolLists
    /\ scan \in Scans
    /\ scan_pc = "loop"
    /\ scan_i = 1
    /\ scan_results = EmptyResults
    /\ scan_log = <<>>
    /\ \E cached \in SUBSET {"AAPL"}, per \in Periods :
          /\ memory_cache = [s \in cached |-> FetchData(s, per, 0)]
          /\ cache_metadata = [s \in cached |-> Metadata(per, 0)]
    /\ now = 0
    /\ period = 30
    /\ fetch_no = 1
    /\ fetch_started = 0
    /\ first_fetch = <<>>

\* fetch_and_cache is called on a DataCache that was just constructed
CacheInit ==
    /\ symbols \in {l \in SymbolLists : \A i \in 1..Len(l) : l[i] \in {"AAPL", "MSFT"}}
    /\ scan = "fetch_and_cache"
    /\ scan_pc = "loop"
    /\ scan_i = 1
    /\ scan_results = EmptyResults
    /\ scan_log = <<>>
    /\ memory_cache = EmptyDict
    /\ cache_metadata = EmptyDict
    /\ now = 0
    /\ period \in Periods
    /\ fetch_no = 1
    /\ fetch_started = 0
    /\ first_fetch = <<>>

ScanIdle ==
    /\ symbols = <<>>
    /\ scan = "identify_potential_stocks"
    /\ scan_pc = "idle"
    /\ scan_i = 1
    /\ scan_results = EmptyResults
    /\ scan_log = <<>>
    /\ memory_cache = EmptyDict
    /\ cache_metadata = EmptyDict
    /\ now = 0
    /\ period = 30
    /\ fetch_no = 1
    /\ fetch_started = 0
    /\ first_fetch = <<>>

\* fetch_data or analyze (or a later line of the try body) raises
ScanFailure ==
    /\ scan_pc = "loop"
    /\ scan_i <= Len(symbols)
    /\ \E what \in {"fetch_error", "analyze_error"} :
          /\ scan = "fetch_and_cache" =>
                /\ what = "fetch_error"
                /\ ~IsCacheValid(symbols[scan_i], period)
          /\ scan_log' = Append(scan_log, [symbol |-> symbols[scan_i], outcome |-> what])
    /\ scan_i' = ContinueAfterFailure(scan_i)
    /\ UNCHANGED <<symbols, scan, scan_pc, scan_results, cacheVars>>
    /\ UNCHANGED <<simVars, sigVars, results, ctorVars, anaVars, twiceVars, monVars, traderVars, valVars>>

\* identify_potential_stocks: the symbol is analysed and appended to results
IdentifyStep ==
    /\ scan_pc = "loop"
    /\ scan = "identify_potential_stocks"
    /\ scan_i <= Len(symbols)
    /\ \E value \in Signals, strength \in Strengths :
          /\ scan_results' =
                [scan_results EXCEPT !.results =
                    Append(@, Entry(symbols[scan_i], value, strength))]
          /\ scan_log' = Append(scan_log, [symbol |-> symbols[scan_i], outcome |-> "analyzed"])
    /\ scan_i' = scan_i + 1
    /\ UNCHANGED <<symbols, scan, scan_pc, cacheVars>>
    /\ UNCHANGED <<simVars, sigVars, results, ctorVars, anaVars, twiceVars, monVars, traderVars, valVars>>

\* analyze_for_tomorrow: the symbol is analysed and put on the list of its signal
PlanStep ==
    /\ scan_pc = "loop"
    /\ scan = "analyze_for_tomorrow"
    /\ scan_i <= Len(symbols)
    /\ \E value \in Signals, strength \in Strengths, worth_watching \in BOOLEAN :
          LET info == Entry(symbols[scan_i], value, strength)
              list == CASE value = 1  -> "buy_candidates"
                        [] value = -1 -> "sell_candidates"
                        [] value = 0 /\ worth_watching  -> "watch_list"
                        [] value = 0 /\ ~worth_watching -> "none"
          IN  /\ scan_results' =
                    CASE list = "buy_candidates" ->
                            [scan_results EXCEPT !.buy_candidates = Append(@, info)]
                      [] list = "sell_candidates" ->
                            [scan_results EXCEPT !.sell_candidates = Append(@, info)]
                      [] list = "watch_list" ->
                            [scan_results EXCEPT !.watch_list =
                                Append(@, Entry(symbols[scan_i], 0, 0))]
                      [] list = "none" -> scan_results
              /\ scan_log' = Append(scan_log, [symbol |-> symbols[scan_i], outcome |-> list])
    /\ scan_i' = scan_i + 1
    /\ UNCHANGED <<symbols, scan, scan_pc, cacheVars>>
    /\ UNCHANGED <<simVars, sigVars, results, ctorVars, anaVars, twiceVars, monVars, traderVars, valVars>>

\* fetch_and_cache: the symbol's frame comes from a valid cache entry or is
\* fetched and cached
CacheStep ==
    /\ scan_pc = "loop"
    /\ scan = "fetch_and_cache"
    /\ scan_i <= Len(symbols)
    /\ LET symbol == symbols[scan_i]
           fetched == FetchData(symbol, period, now)
       IN  IF IsCacheValid(symbol, period)
           THEN /\ scan_results' = [scan_results EXCEPT !.results =
                       Append(@, [symbol |-> symbol, frame |-> memory_cache[symbol]])]
                /\ scan_log' = Append(scan_log, [symbol |-> symbol, outcome |-> "cached"])
                /\ UNCHANGED <<memory_cache, cache_metadata>>
           ELSE /\ memory_cache' = (symbol :> fetched) @@ memory_cache
                /\ cache_metadata' = (symbol :> Metadata(period, now)) @@ cache_metadata
                /\ scan_results' = [scan_results EXCEPT !.results =
                       Append(@, [symbol |-> symbol, frame |-> fetched])]
                /\ scan_log' = Append(scan_log, [symbol |-> symbol, outcome |-> "fetched"])
    /\ scan_i' = scan_i + 1
    /\ UNCHANGED <<symbols, scan, scan_pc, now, period, fetch_no, fetch_started, first_fetch>>
    /\ UNCHANGED <<simVars, sigVars, results, ctorVars, anaVars, twiceVars, monVars, traderVars, valVars>>

\* time passes
Tick ==
    /\ scan_pc \in {"loop", "returned"}
    /\ \E d \in Ticks :
          /\ now + d <= MaxTime
          /\ now' = now + d
    /\ UNCHANGED <<symbols, scan, scan_pc, scan_i, scan_results, scan_log, memory_cache,
                   cache_metadata, period, fetch_no, fetch_started, first_fetch>>
    /\ UNCHANGED <<simVars, sigVars, results, ctorVars, anaVars, twiceVars, monVars, traderVars, valVars>>

\* fetch_and_cache is called again on the same DataCache
FetchAgain ==
    /\ scan_pc = "returned"
    /\ scan = "fetch_and_cache"
    /\ fetch_no < MaxFetches
    /\ first_fetch' =
          IF fetch_no = 1
          THEN <<[symbols |-> symbols, period |-> period, started |-> fetch_started,
                  log |-> scan_log]>>
          ELSE first_fetch
    /\ symbols' \in {l \in SymbolLists : \A i \in 1..Len(l) : l[i] \in {"AAPL", "MSFT"}}
    /\ period' \in Periods
    /\ fetch_no' = fetch_no + 1
    /\ fetch_started' = now
    /\ scan_pc' = "loop"
    /\ scan_i' = 1
    /\ scan_results' = EmptyResults
    /\ scan_log' = <<>>
    /\ UNCHANGED <<scan, memory_cache, cache_metadata, now>>
    /\ UNCHANGED <<simVars, sigVars, results, ctorVars, anaVars, twiceVars, monVars, traderVars, valVars>>

Orderings(n) ==
    {p \in [1..n -> 1..n] : \A i, j \in 1..n : i # j => p[i] # p[j]}

\* key order of the final sort, descending
KeyGe(a, b, by_value) ==
    IF by_value
    THEN \/ a.signal_value > b.signal_value
         \/ a.signal_value = b.signal_value /\ a.signal_strength >= b.signal_strength
    ELSE a.signal_strength >= b.signal_strength

\* the orders a descending sort of s may return; a stable sort keeps equal keys
\* in their order
Sortings(s, by_value, stable) ==
    {[i \in 1..Len(s) |-> s[p[i]]] :
        p \in {q \in Orderings(Len(s)) :
                 \A i, j \in 1..Len(s) :
                    i < j => /\ KeyGe(s[q[i]], s[q[j]], by_value)
                             /\ (stable /\ KeyGe(s[q[j]], s[q[i]], by_value))
                                   => q[i] < q[j]}}

\* the loop is over: the final sort, and return
ScanReturn ==
    /\ scan_pc = "loop"
    /\ scan_i > Len(symbols)
    /\ CASE scan = "identify_potential_stocks" ->
              \E sorted \in Sortings(scan_results.results, TRUE, FALSE) :
                  scan_results' = [scan_results EXCEPT !.results = sorted]
         [] scan = "analyze_for_tomorrow" ->
              \E buys \in Sortings(scan_results.buy_candidates, FALSE, TRUE),
                 sells \in Sortings(scan_results.sell_candidates, FALSE, TRUE) :
                  scan_results' = [scan_results EXCEPT !.buy_candidates = buys,
                                                       !.sell_candidates = sells]
         [] scan = "fetch_and_cache" -> UNCHANGED scan_results
    /\ scan_pc' = "returned"
    /\ UNCHANGED <<symbols, scan, scan_i, scan_log, cacheVars>>
    /\ UNCHANGED <<simVars, sigVars, results, ctorVars, anaVars, twiceVars, monVars, traderVars, valVars>>

-----------------------------------------------------------------------------
(* Two calls of _simulate_trades and _calculate_metrics on one Backtester,  *)
(* with the same analysed frame.  The frame is fixed beforehand (bars) and  *)
(* the loop reads its rows in order.                                        *)

BarRows == [close : Closes \ {0}, signal : Signals]

AnalysedFrames ==
    UNION {{[i \in 1..n |-> [idx |-> i, close |-> f[i].close, signal |-> f[i].signal]]
               : f \in [1..n -> BarRows]} : n \in 0..MaxBars}

CarriedCapital == capital

\* capital = self.initial_capital
FreshCapital == initial_capital

TwiceInit ==
    /\ initial_capital = 10000
    /\ config \in {c \in Configs : c.RISK_PER_TRADE = 2}
    /\ bars \in AnalysedFrames
    /\ run_no = 1
    /\ first_run = <<>>
    /\ df = <<>>
    /\ pc = "loop"
    /\ capital = initial_capital
    /\ position = <<>>
    /\ trades = <<>>
    /\ portfolio_values = <<>>
    /\ results = <<>>

TwiceIdle ==
    /\ bars = <<>>
    /\ run_no = 1
    /\ first_run = <<>>

\* for idx, row in df.iterrows(): the next row of the given frame
ReplayRow ==
    /\ pc = "loop"
    /\ Len(df) < Len(bars)
    /\ df' = Append(df, bars[Len(df) + 1])
    /\ pc' = "check_exit"
    /\ UNCHANGED <<initial_capital, config, capital, position, trades,
                   portfolio_values, sigVars, results, ctorVars, extVars>>

\* the given frame has no further row
ReplayEnd ==
    /\ pc = "loop"
    /\ Len(df) = Len(bars)
    /\ pc' = "close_remaining"
    /\ UNCHANGED <<initial_capital, config, df, capital, position, trades,
                   portfolio_values, sigVars, results, ctorVars, extVars>>

\* the second call: _simulate_trades starts again from its first lines
SecondRun ==
    /\ pc = "returned"
    /\ run_no = 1
    /\ first_run' = <<[trades |-> trades, portfolio_values |-> portfolio_values,
                       results |-> results[1]]>>
    /\ run_no' = 2
    /\ capital' = FreshCapital
    /\ position' = <<>>
    /\ trades' = <<>>
    /\ portfolio_values' = <<>>
    /\ df' = <<>>
    /\ results' = <<>>
    /\ pc' = "loop"
    /\ UNCHANGED <<initial_capital, config, sigVars, ctorVars, anaVars, scanVars,
                   bars, monVars, traderVars, valVars>>

-----------------------------------------------------------------------------
(* MonitoringSystem: record_metric and record_error called by several       *)
(* threads.  The class has no lock.  self.metrics[key] += value reads the   *)
(* entry, adds, and stores the sum; another thread may run between the read *)
(* and the store.  list.append is one step.                                 *)

MaxThreads == 2

MaxCalls == 2

Threads == 1..MaxThreads

Categories == <<"data_fetch", "fetch_count">>

Operations == <<"fetch", "errors_fetch">>

Durations == {5, 20}

MaxRecords == 3

\* f'errors_{category}'
ErrorsKey(category) ==
    CASE category = "data_fetch"  -> "errors_data_fetch"
      [] category = "fetch_count" -> "errors_fetch_count"

\* f'warnings_{category}'
WarningsKey(category) ==
    CASE category = "data_fetch"  -> "warnings_data_fetch"
      [] category = "fetch_count" -> "warnings_fetch_count"

\* f'{operation}_count'
CountKey(operation) ==
    CASE operation = "fetch"        -> "fetch_count"
      [] operation = "errors_fetch" -> "errors_fetch_count"

\* the keys of self.metrics; a key that was never written reads 0 (defaultdict)
MetricKeys ==
    {"api_calls", "total_errors", "total_warnings"}
        \cup {ErrorsKey(Categories[i]) : i \in 1..Len(Categories)}
        \cup {WarningsKey(Categories[i]) : i \in 1..Len(Categories)}
        \cup {CountKey(Operations[i]) : i \in 1..Len(Operations)}

\* defaultdict(list) with no entry
NoEntries(names) == [i \in {names[k] : k \in 1..Len(names)} |-> <<>>]

MonInit ==
    /\ metrics = [k \in MetricKeys |-> 0]
    /\ errors = NoEntries(Categories)
    /\ warnings = NoEntries(Categories)
    /\ timings = NoEntries(Operations)
    /\ last_call = "__init__"
    /\ mon_threads = [t \in Threads |-> [pc |-> "idle", key |-> "none", read |-> 0, calls |-> 0]]
    /\ mon_calls = [record_metric |-> 0, record_error |-> 0]

MonIdle ==
    /\ metrics = [k \in MetricKeys |-> 0]
    /\ errors = NoEntries(Categories)
    /\ warnings = NoEntries(Categories)
    /\ timings = NoEntries(Operations)
    /\ last_call = "__init__"
    /\ mon_threads = [t \in Threads |-> [pc |-> "done", key |-> "none", read |-> 0, calls |-> 0]]
    /\ mon_calls = [record_metric |-> 0, record_error |-> 0]

\* a thread calls record_metric('api_calls'): self.metrics[name] is read
RecordMetricRead(t) ==
    /\ mon_threads[t].pc = "idle"
    /\ mon_threads[t].calls < MaxCalls
    /\ mon_threads' = [mon_threads EXCEPT ![t] =
                          [pc |-> "metric_store", key |-> "api_calls",
                           read |-> metrics["api_calls"], calls |-> @.calls + 1]]
    /\ UNCHANGED <<metrics, errors, mon_calls>>
    /\ UNCHANGED <<warnings, timings, last_call>>
    /\ UNCHANGED <<simVars, sigVars, results, ctorVars, anaVars, scanVars, twiceVars, traderVars, valVars>>

\* self.metrics[name] = (value read) + value; record_metric returns
RecordMetricStore(t) ==
    /\ mon_threads[t].pc = "metric_store"
    /\ metrics' = [metrics EXCEPT !["api_calls"] = mon_threads[t].read + 1]
    /\ mon_threads' = [mon_threads EXCEPT ![t].pc = "idle"]
    /\ mon_calls' = [mon_calls EXCEPT !.record_metric = @ + 1]
    /\ UNCHANGED errors
    /\ UNCHANGED <<warnings, timings, last_call>>
    /\ UNCHANGED <<simVars, sigVars, results, ctorVars, anaVars, scanVars, twiceVars, traderVars, valVars>>

\* a thread calls record_error('data_fetch', e): the entry is appended and
\* self.metrics['errors_data_fetch'] is read
RecordErrorAppend(t) ==
    /\ mon_threads[t].pc = "idle"
    /\ mon_threads[t].calls < MaxCalls
    /\ errors' = [errors EXCEPT !["data_fetch"] = Append(@, t)]
    /\ mon_threads' = [mon_threads EXCEPT ![t] =
                          [pc |-> "category_store", key |-> "errors_data_fetch",
                           read |-> metrics["errors_data_fetch"], calls |-> @.calls + 1]]
    /\ UNCHANGED <<metrics, mon_calls>>
    /\ UNCHANGED <<warnings, timings, last_call>>
    /\ UNCHANGED <<simVars, sigVars, results, ctorVars, anaVars, scanVars, twiceVars, traderVars, valVars>>

\* self.metrics[f'errors_{category}'] is stored
RecordErrorCategoryStore(t) ==
    /\ mon_threads[t].pc = "category_store"
    /\ metrics' = [metrics EXCEPT !["errors_data_fetch"] = mon_threads[t].read + 1]
    /\ mon_threads' = [mon_threads EXCEPT ![t].pc = "total_read"]
    /\ UNCHANGED <<errors, mon_calls>>
    /\ UNCHANGED <<warnings, timings, last_call>>
    /\ UNCHANGED <<simVars, sigVars, results, ctorVars, anaVars, scanVars, twiceVars, traderVars, valVars>>

\* self.metrics['total_errors'] is read
RecordErrorTotalRead(t) ==
    /\ mon_threads[t].pc = "total_read"
    /\ mon_threads' = [mon_threads EXCEPT ![t].pc = "total_store",
                                          ![t].key = "total_errors",
                                          ![t].read = metrics["total_errors"]]
    /\ UNCHANGED <<metrics, errors, mon_calls>>
    /\ UNCHANGED <<warnings, timings, last_call>>
    /\ UNCHANGED <<simVars, sigVars, results, ctorVars, anaVars, scanVars, twiceVars, traderVars, valVars>>

\* self.metrics['total_errors'] is stored; record_error returns
RecordErrorTotalStore(t) ==
    /\ mon_threads[t].pc = "total_store"
    /\ metrics' = [metrics EXCEPT !["total_errors"] = mon_threads[t].read + 1]
    /\ mon_threads' = [mon_threads EXCEPT ![t].pc = "idle"]
    /\ mon_calls' = [mon_calls EXCEPT !.record_error = @ + 1]
    /\ UNCHANGED errors
    /\ UNCHANGED <<warnings, timings, last_call>>
    /\ UNCHANGED <<simVars, sigVars, results, ctorVars, anaVars, scanVars, twiceVars, traderVars, valVars>>

\* a MonitoringSystem used by one thread
CounterInit ==
    /\ metrics = [k \in MetricKeys |-> 0]
    /\ errors = NoEntries(Categories)
    /\ warnings = NoEntries(Categories)
    /\ timings = NoEntries(Operations)
    /\ last_call = "__init__"
    /\ mon_threads = [t \in Threads |-> [pc |-> "done", key |-> "none", read |-> 0, calls |-> 0]]
    /\ mon_calls = [record_metric |-> 0, record_error |-> 0]

\* the number of entries the lists of d hold
Entries(d, names) == SumOf([k \in 1..Len(names) |-> Len(d[names[k]])], 1, Len(names))

Recorded == Entries(errors, Categories) + Entries(warnings, Categories)
               + Entries(timings, Operations)

\* self.metrics[key] += 1; self.metrics[total] += 1
Increment(m, key, total) ==
    [[m EXCEPT ![key] = @ + 1] EXCEPT ![total] = @ + 1]

\* record_error(category, error)
RecordError ==
    /\ Recorded < MaxRecords
    /\ \E i \in 1..Len(Categories) :
          /\ errors' = [errors EXCEPT ![Categories[i]] = Append(@, "error_entry")]
          /\ metrics' = Increment(metrics, ErrorsKey(Categories[i]), "total_errors")
    /\ last_call' = "record_error"
    /\ UNCHANGED <<warnings, timings, mon_threads, mon_calls>>
    /\ UNCHANGED <<simVars, sigVars, results, ctorVars, anaVars, scanVars, twiceVars, traderVars, valVars>>

\* record_warning(category, message)
RecordWarning ==
    /\ Recorded < MaxRecords
    /\ \E i \in 1..Len(Categories) :
          /\ warnings' = [warnings EXCEPT ![Categories[i]] = Append(@, "warning_entry")]
          /\ metrics' = Increment(metrics, WarningsKey(Categories[i]), "total_warnings")
    /\ last_call' = "record_warning"
    /\ UNCHANGED <<errors, timings, mon_threads, mon_calls>>
    /\ UNCHANGED <<simVars, sigVars, results, ctorVars, anaVars, scanVars, twiceVars, traderVars, valVars>>

\* record_timing(operation, duration_ms)
RecordTiming ==
    /\ Recorded < MaxRecords
    /\ \E i \in 1..Len(Operations), duration_ms \in Durations :
          /\ timings' = [timings EXCEPT ![Operations[i]] = Append(@, duration_ms)]
          /\ metrics' = [metrics EXCEPT ![CountKey(Operations[i])] = @ + 1]
    /\ last_call' = "record_timing"
    /\ UNCHANGED <<errors, warnings, mon_threads, mon_calls>>
    /\ UNCHANGED <<simVars, sigVars, results, ctorVars, anaVars, scanVars, twiceVars, traderVars, valVars>>

\* reset()
Reset ==
    /\ last_call # "reset"
    /\ errors' = NoEntries(Categories)
    /\ warnings' = NoEntries(Categories)
    /\ metrics' = [k \in MetricKeys |-> 0]
    /\ timings' = NoEntries(Operations)
    /\ last_call' = "reset"
    /\ UNCHANGED <<mon_threads, mon_calls>>
    /\ UNCHANGED <<simVars, sigVars, results, ctorVars, anaVars, scanVars, twiceVars, traderVars, valVars>>

-----------------------------------------------------------------------------
(* Trader.check_and_execute (src/trader.py).  The returned dict is a        *)
(* function from its keys to their values; calls lists the calls made on    *)
(* the broker and on analyze_current_market, in order.                      *)

TraderConfigs ==
    [MAX_POSITION_SIZE : {MAX_POSITION_SIZE},
     RISK_PER_TRADE    : {2},
     STOP_LOSS_PCT     : {0, STOP_LOSS_PCT},
     TAKE_PROFIT_PCT   : {4}]

SignalInfos ==
    [signal : {"buy", "sell", "hold"}, price : {100, 2000}, broker_price : {97, 100, 105}]

SymbolPositions == {<<>>, <<[avg_entry_price |-> 100, qty |-> 5]>>}

AccountInfos == [buying_power : {0, 10000}]

TraderInit ==
    /\ trader_pc = "ready"
    /\ market_open \in BOOLEAN
    /\ dry_run \in BOOLEAN
    /\ signal_info \in SignalInfos
    /\ symbol_position \in SymbolPositions
    /\ account_info \in AccountInfos
    /\ result = <<>>
    /\ calls = <<>>

TraderIdle ==
    /\ trader_pc = "idle"
    /\ market_open = FALSE
    /\ dry_run = TRUE
    /\ signal_info = [signal |-> "hold", price |-> 100, broker_price |-> 100]
    /\ symbol_position = <<>>
    /\ account_info = [buying_power |-> 0]
    /\ result = <<>>
    /\ calls = <<>>

SubmitsAlways(dry) == TRUE

\* if dry_run: ... else: the broker is called
Submits(dry) == ~dry

\* result = {'timestamp': ..., 'symbol': ..., 'signal': ..., 'price': ..., 'dry_run': dry_run}
BaseResult ==
    [symbol |-> "SYMBOL", signal |-> signal_info.signal,
     price |-> signal_info.broker_price, dry_run |-> dry_run]

\* result['action'] = action; result['message'] = message
WithAction(res, action, message) ==
    res @@ [action |-> action, message |-> message]

\* the body of check_and_execute once the market is open: the result and
\* the calls made after get_positions
Execute ==
    LET entry_price == signal_info.price
        risk_per_share100 == entry_price * config.STOP_LOSS_PCT
        risk_amount100 == account_info.buying_power * config.RISK_PER_TRADE
        shares == Min(IntTrunc(risk_amount100, risk_per_share100),
                      IntTrunc(config.MAX_POSITION_SIZE, entry_price))
        current_price == signal_info.broker_price
        closing(dry_action, action) ==
            IF Submits(dry_run)
            THEN [result |-> WithAction(BaseResult, action, "executed") @@ [order |-> "order"],
                  calls  |-> <<"close_position">>]
            ELSE [result |-> WithAction(BaseResult, dry_action, "would"), calls |-> <<>>]
    IN  IF signal_info.signal = "buy" /\ symbol_position = <<>>
        THEN IF risk_per_share100 > 0 /\ shares > 0
             THEN IF Submits(dry_run)
                  THEN [result |-> WithAction(BaseResult, "buy_executed", "Bought")
                                      @@ [order |-> "order"],
                        calls  |-> <<"get_account_info", "place_order">>]
                  ELSE [result |-> WithAction(BaseResult, "buy_signal", "Would buy")
                                      @@ [shares |-> shares,
                                          estimated_cost |-> shares * entry_price],
                        calls  |-> <<"get_account_info">>]
             ELSE [result |-> BaseResult, calls |-> <<"get_account_info">>]
        ELSE IF signal_info.signal = "sell" /\ symbol_position # <<>>
        THEN closing("sell_signal", "sell_executed")
        ELSE IF symbol_position # <<>>
        THEN IF current_price * 100
                   <= symbol_position[1].avg_entry_price * (100 - config.STOP_LOSS_PCT)
             THEN closing("stop_loss_triggered", "stop_loss_executed")
             ELSE IF current_price * 100
                        >= symbol_position[1].avg_entry_price * (100 + config.TAKE_PROFIT_PCT)
             THEN closing("take_profit_triggered", "take_profit_executed")
             ELSE [result |-> WithAction(BaseResult, "hold", "Holding position")
                                 @@ [unrealized_pl |-> 0],
                   calls  |-> <<>>]
        ELSE [result |-> WithAction(BaseResult, "hold", "No signal, holding cash"),
              calls  |-> <<>>]

\* check_and_execute(dry_run)
CheckAndExecute ==
    /\ trader_pc = "ready"
    /\ IF ~market_open
       THEN /\ result' = <<[action |-> "market_closed",
                            message |-> "Market is currently closed"]>>
            /\ calls' = <<"is_market_open">>
       ELSE /\ result' = <<Execute.result>>
            /\ calls' = <<"is_market_open", "analyze_current_market", "get_positions">>
                           \o Execute.calls
    /\ trader_pc' = "returned"
    /\ UNCHANGED <<market_open, dry_run, signal_info, symbol_position, account_info>>
    /\ UNCHANGED <<simVars, sigVars, results, ctorVars, anaVars, scanVars, twiceVars,
                   monVars, valVars>>

-----------------------------------------------------------------------------
(* OHLCVValidator (src/src/validation.py).  A cell of a frame is a number   *)
(* or NaN; a column of dtype object is not numeric.                         *)

MaxRows == 2

REQUIRED_COLUMNS == <<"open", "high", "low", "close", "volume">>

ValRows ==
    [open : {NaN, Num(2)}, high : {Num(3)}, low : {Num(0), Num(1), Num(4)},
     close : {Num(2), Num(5)}, volume : {Num(-1), Num(10)}]

ValFrames ==
    UNION {[columns     : {OHLCV, OHLCV \ {"volume"}},
            object_cols : {{}, {"volume"}},
            index_type  : {"DatetimeIndex", "Index"},
            index       : IndexKinds(n),
            rows        : [1..n -> ValRows]] : n \in 0..MaxRows}

\* the number of rows of f that satisfy test
CountRows(f, test(_)) == Cardinality({i \in 1..Len(f.rows) : test(f.rows[i])})

\* ValidationError(field, error_type, message); the message is kept as the
\* values its f-string is made of
ValidationError(field, error_type, detail) ==
    [field |-> field, error_type |-> error_type,
     message |-> <<field, error_type, detail>>]

\* raise ValueError(f"Validation failed: {error.message}")
Raise(error) == [raised |-> TRUE, message |-> <<"Validation failed: ", error.message>>]

\* return errors
Return(errs) == [raised |-> FALSE, errors |-> errs]

\* pd.api.types.is_numeric_dtype(df[col])
IsNumericDtype(f, col) == col \notin f.object_cols

\* df['volume'] < 0
Negative(v) == Lt(v, Num(0))

NonPositiveStrict(v) == Lt(v, Num(0))

\* df[col] <= 0
NonPositive(v) == Le(v, Num(0))

\* df.index.duplicated(): the index value occurs on an earlier row
Duplicated(f) ==
    {i \in 1..Len(f.index) : \E j \in 1..(i - 1) : f.index[j] = f.index[i]}

\* one entry per check after the column check, in the order of the code:
\* whether the check finds an error, and the error
Checks(f) ==
    LET numeric == \A k \in 1..5 : IsNumericDtype(f, REQUIRED_COLUMNS[k])
        nulls(col) == CountRows(f, LAMBDA r : IsNaN(r[col]))
        nonpos(col) == CountRows(f, LAMBDA r : NonPositive(r[col]))
        invalid_hl == CountRows(f, LAMBDA r : Lt(r.high, r.low))
        invalid_close == CountRows(f, LAMBDA r : Gt(r.close, r.high) \/ Lt(r.close, r.low))
        invalid_open == CountRows(f, LAMBDA r : Gt(r.open, r.high) \/ Lt(r.open, r.low))
    IN  [k \in 1..5 |->
            [failed |-> nulls(REQUIRED_COLUMNS[k]) > 0,
             error  |-> ValidationError(REQUIRED_COLUMNS[k], "null_values",
                                        nulls(REQUIRED_COLUMNS[k]))]]
        \o
        [k \in 1..5 |->
            [failed |-> ~IsNumericDtype(f, REQUIRED_COLUMNS[k]),
             error  |-> ValidationError(REQUIRED_COLUMNS[k], "wrong_type", "object")]]
        \o
        [k \in 1..4 |->
            [failed |-> numeric /\ nonpos(REQUIRED_COLUMNS[k]) > 0,
             error  |-> ValidationError(REQUIRED_COLUMNS[k], "invalid_value",
                                        nonpos(REQUIRED_COLUMNS[k]))]]
        \o
        <<[failed |-> numeric /\ CountRows(f, LAMBDA r : Negative(r.volume)) > 0,
           error  |-> ValidationError("volume", "invalid_value", 0)],
          [failed |-> numeric /\ invalid_hl > 0,
           error  |-> ValidationError("high_low", "logical_error", invalid_hl)],
          [failed |-> numeric /\ invalid_close > 0,
           error  |-> ValidationError("close", "logical_error", invalid_close)],
          [failed |-> numeric /\ invalid_open > 0,
           error  |-> ValidationError("open", "logical_error", invalid_open)],
          [failed |-> f.index_type # "DatetimeIndex",
           error  |-> ValidationError("index", "wrong_type", f.index_type)],
          [failed |-> Duplicated(f) # {},
           error  |-> ValidationError("index", "duplicates", Cardinality(Duplicated(f)))]>>

RECURSIVE RunChecks(_, _, _, _)
\* the checks from the k-th on: errors.append(error); if strict: raise
RunChecks(checks, k, errs, strict) ==
    IF k > Len(checks)
    THEN Return(errs)
    ELSE IF checks[k].failed
         THEN IF strict
              THEN Raise(checks[k].error)
              ELSE RunChecks(checks, k + 1, Append(errs, checks[k].error), strict)
         ELSE RunChecks(checks, k + 1, errs, strict)

\* OHLCVValidator.validate(df, strict)
Validate(f, strict) ==
    LET empty == ValidationError("dataframe", "empty", "DataFrame is empty")
        missing_cols == SelectSeq(REQUIRED_COLUMNS, LAMBDA col : col \notin f.columns)
        missing == ValidationError("columns", "missing", missing_cols)
    IN  IF IsEmpty(f)
        THEN IF strict THEN Raise(empty) ELSE Return(<<empty>>)
        ELSE IF missing_cols # <<>>
        THEN IF strict THEN Raise(missing) ELSE Return(<<missing>>)
        ELSE RunChecks(Checks(f), 1, <<>>, strict)

\* OHLCVValidator.is_valid(df)
IsValid(f) == Len(Validate(f, FALSE).errors) = 0

ValInit ==
    /\ vframe \in ValFrames
    /\ v_pc = "new"
    /\ strict_outcome = <<>>
    /\ lenient_outcome = <<>>
    /\ is_valid_outcome = <<>>

ValIdle ==
    /\ vframe = [columns |-> {}, object_cols |-> {}, index_type |-> "DatetimeIndex",
                 index |-> <<>>, rows |-> <<>>]
    /\ v_pc = "idle"
    /\ strict_outcome = <<>>
    /\ lenient_outcome = <<>>
    /\ is_valid_outcome = <<>>

\* validate(df, strict=True)
ValidateStrict ==
    /\ v_pc = "new"
    /\ strict_outcome' = <<Validate(vframe, TRUE)>>
    /\ v_pc' = "strict"
    /\ UNCHANGED <<vframe, lenient_outcome, is_valid_outcome>>
    /\ UNCHANGED <<simVars, sigVars, results, ctorVars, anaVars, scanVars, twiceVars,
                   monVars, traderVars>>

\* validate(df, strict=False)
ValidateLenient ==
    /\ v_pc = "strict"
    /\ lenient_outcome' = <<Validate(vframe, FALSE)>>
    /\ v_pc' = "lenient"
    /\ UNCHANGED <<vframe, strict_outcome, is_valid_outcome>>
    /\ UNCHANGED <<simVars, sigVars, results, ctorVars, anaVars, scanVars, twiceVars,
                   monVars, traderVars>>

\* is_valid(df)
IsValidCall ==
    /\ v_pc = "lenient"
    /\ is_valid_outcome' = <<IsValid(vframe)>>
    /\ v_pc' = "done"
    /\ UNCHANGED <<vframe, strict_outcome, lenient_outcome>>
    /\ UNCHANGED <<simVars, sigVars, results, ctorVars, anaVars, scanVars, twiceVars,
                   monVars, traderVars>>

-----------------------------------------------------------------------------
(* Specifications *)

\* a fixed signal-generator state for runs of the simulator
SigIdle ==
    /\ strategy = "balanced"
    /\ indicators = [rsi |-> NaN, rsi_prev |-> NaN, fast_ma |-> NaN,
                     slow_ma |-> NaN, fast_ma_prev |-> NaN,
                     slow_ma_prev |-> NaN, close |-> Num(100)]
    /\ signal = <<>>

\* no single row under evaluation, any strategy
RowIdle ==
    /\ indicators = [rsi |-> NaN, rsi_prev |-> NaN, fast_ma |-> NaN,
                     slow_ma |-> NaN, fast_ma_prev |-> NaN,
                     slow_ma_prev |-> NaN, close |-> Num(100)]
    /\ signal = <<>>

\* a fixed simulator state for runs of the signal generators
SimIdle ==
    /\ initial_capital = 10000
    /\ config = [MAX_POSITION_SIZE |-> MAX_POSITION_SIZE, RISK_PER_TRADE |-> 2,
                 STOP_LOSS_PCT |-> STOP_LOSS_PCT, TAKE_PROFIT_PCT |-> 4]
    /\ df = <<>>
    /\ pc = "idle"
    /\ capital = initial_capital
    /\ position = <<>>
    /\ trades = <<>>
    /\ portfolio_values = <<>>

ExtIdle == AnaIdle /\ ScanIdle /\ TwiceIdle /\ MonIdle /\ TraderIdle /\ ValIdle

Init == SimInit /\ SigIdle /\ CtorIdle /\ ExtIdle /\ results = <<>>

Next ==
    \/ NextRow
    \/ EndOfRows
    \/ CheckExit
    \/ EntryOrSell
    \/ RecordEquity
    \/ CloseRemaining
    \/ CalculateMetrics

Spec == Init /\ [][Next]_vars

InitSignal == SimIdle /\ SigInit /\ CtorIdle /\ ExtIdle /\ results = <<>>

NextSignal == GenerateSignals

SpecSignal == InitSignal /\ [][NextSignal]_vars

InitMetrics == MetricsInit /\ SigIdle /\ CtorIdle /\ ExtIdle

NextMetrics == CalculateMetrics

SpecMetrics == InitMetrics /\ [][NextMetrics]_vars

InitConstruct == CtorInit /\ SigIdle /\ ExtIdle

NextConstruct ==
    \/ Construct
    \/ RunBacktest

SpecConstruct == InitConstruct /\ [][NextConstruct]_vars

InitAnalyze ==
    /\ SimIdle /\ CtorIdle /\ results = <<>>
    /\ RowIdle
    /\ AnaInit
    /\ ScanIdle /\ TwiceIdle /\ MonIdle /\ TraderIdle /\ ValIdle

NextAnalyze == AnalyzeFrame

SpecAnalyze == InitAnalyze /\ [][NextAnalyze]_vars

InitScan ==
    /\ SimIdle /\ SigIdle /\ CtorIdle /\ results = <<>>
    /\ AnaIdle /\ TwiceIdle /\ MonIdle /\ TraderIdle /\ ValIdle
    /\ ScanInit

NextScan ==
    \/ ScanFailure
    \/ IdentifyStep
    \/ PlanStep
    \/ CacheStep
    \/ ScanReturn

SpecScan == InitScan /\ [][NextScan]_vars

InitTwice ==
    /\ TwiceInit
    /\ SigIdle /\ CtorIdle /\ AnaIdle /\ ScanIdle /\ MonIdle /\ TraderIdle /\ ValIdle

NextTwice ==
    \/ ReplayRow
    \/ ReplayEnd
    \/ CheckExit
    \/ EntryOrSell
    \/ RecordEquity
    \/ CloseRemaining
    \/ CalculateMetrics
    \/ SecondRun

SpecTwice == InitTwice /\ [][NextTwice]_vars

InitMonitor ==
    /\ SimIdle /\ SigIdle /\ CtorIdle /\ results = <<>>
    /\ AnaIdle /\ ScanIdle /\ TwiceIdle /\ TraderIdle /\ ValIdle
    /\ MonInit

NextMonitor ==
    \E t \in Threads :
        \/ RecordMetricRead(t)
        \/ RecordMetricStore(t)
        \/ RecordErrorAppend(t)
        \/ RecordErrorCategoryStore(t)
        \/ RecordErrorTotalRead(t)
        \/ RecordErrorTotalStore(t)

SpecMonitor == InitMonitor /\ [][NextMonitor]_vars

InitCache ==
    /\ SimIdle /\ SigIdle /\ CtorIdle /\ results = <<>>
    /\ AnaIdle /\ TwiceIdle /\ MonIdle /\ TraderIdle /\ ValIdle
    /\ CacheInit

NextCache == CacheStep \/ ScanFailure \/ ScanReturn \/ Tick \/ FetchAgain

SpecCache == InitCache /\ [][NextCache]_vars

InitValidate ==
    /\ SimIdle /\ SigIdle /\ CtorIdle /\ results = <<>>
    /\ AnaIdle /\ ScanIdle /\ TwiceIdle /\ MonIdle /\ TraderIdle
    /\ ValInit

NextValidate == ValidateStrict \/ ValidateLenient \/ IsValidCall

SpecValidate == InitValidate /\ [][NextValidate]_vars

InitCounters ==
    /\ SimIdle /\ SigIdle /\ CtorIdle /\ results = <<>>
    /\ AnaIdle /\ ScanIdle /\ TwiceIdle /\ TraderIdle /\ ValIdle
    /\ CounterInit

NextCounters == RecordError \/ RecordWarning \/ RecordTiming \/ Reset

SpecCounters == InitCounters /\ [][NextCounters]_vars

InitTrader ==
    /\ initial_capital = 10000
    /\ config \in TraderConfigs
    /\ df = <<>> /\ pc = "idle" /\ capital = initial_capital /\ position = <<>>
    /\ trades = <<>> /\ portfolio_values = <<>> /\ results = <<>>
    /\ SigIdle /\ CtorIdle
    /\ AnaIdle /\ ScanIdle /\ TwiceIdle /\ MonIdle /\ ValIdle
    /\ TraderInit

NextTrader == CheckAndExecute

SpecTrader == InitTrader /\ [][NextTrader]_vars

-----------------------------------------------------------------------------
(* Properties of the simulator and of the signal generators *)

LastTrade == trades[Len(trades)]

\* C1: the simulator holds at most one open position, and a Buy signal on a
\* bar whose position is still open after the exit check opens nothing and
\* leaves the position's shares, entry price and the cash as they are.
C1_SinglePosition ==
    [][/\ Len(position') <= 1
       /\ (pc = "entry" /\ Row.signal = 1 /\ position # <<>>)
             => (position' = position /\ capital' = capital /\ trades' = trades)]_vars

C1_Witness ==
    /\ pc = "equity"
    /\ Row.signal = 1
    /\ position # <<>>
    /\ position[1].entry_time < Row.idx

\* C2: for every signal generator, a row on which both the buy condition and
\* the sell condition are true gets signal -1 (Sell).
C2_SellPrecedence ==
    (signal # <<>> /\ BuyCondition(strategy, indicators)
                   /\ SellCondition(strategy, indicators))
        => signal[1] = -1

C2_Witness ==
    /\ signal # <<>>
    /\ strategy = "conservative"
    /\ BuyCondition(strategy, indicators)
    /\ SellCondition(strategy, indicators)

\* C3: every trade of the ledger has exit_time strictly later than
\* entry_time, the trade of the close after the last bar included.
C3_ExitAfterEntry ==
    \A i \in 1..Len(trades) : trades[i].exit_time > trades[i].entry_time

\* C4: every trade of the ledger, and every open position, has an integer
\* shares > 0 and entry_price > 0, and the entry price is one at which
\* risk_per_share > 0.
C4_PositiveSharesAndPrice ==
    /\ \A i \in 1..Len(trades) :
          /\ trades[i].shares \in Nat /\ trades[i].shares > 0
          /\ trades[i].entry_price > 0
          /\ trades[i].entry_price * config.STOP_LOSS_PCT > 0
    /\ \A i \in 1..Len(position) :
          /\ position[i].shares \in Nat /\ position[i].shares > 0
          /\ position[i].entry_price > 0
          /\ position[i].entry_price * config.STOP_LOSS_PCT > 0

C4_Witness ==
    /\ Len(trades) > 0
    /\ \E i \in 1..Len(df) : df[i].signal = 1 /\ df[i].close <= 0

Floor(a, b) == a \div b

\* C5 as stated: on a Buy while Flat the shares bought are
\* min(floor(risk_amount / risk_per_share), floor(max / close),
\* floor(capital / close)), and whenever that is > 0 the position is opened
\* with that many shares at the close and capital is debited shares x close.
C5_Original ==
    [][(pc = "entry" /\ Row.signal = 1 /\ position = <<>>
          /\ Row.close * config.STOP_LOSS_PCT > 0)
        => LET close == Row.close
               n == Min(Min(Floor(capital * config.RISK_PER_TRADE,
                                  close * config.STOP_LOSS_PCT),
                            Floor(config.MAX_POSITION_SIZE, close)),
                        Floor(capital, close))
           IN  n > 0 =>
                 /\ position' = <<[shares |-> n, entry_price |-> close,
                                   entry_time |-> Row.idx]>>
                 /\ capital' = capital - n * close]_vars

\* C5 amended: on a Buy while Flat with risk_per_share > 0 the share count is
\* n = min(floor(risk_amount / risk_per_share), floor(max / close)); if
\* n > 0 and capital >= n x close the position is opened with n shares at the
\* close and capital is debited n x close, otherwise nothing is bought.
C5_Sizing ==
    [][(pc = "entry" /\ Row.signal = 1 /\ position = <<>>
          /\ Row.close * config.STOP_LOSS_PCT > 0)
        => LET close == Row.close
               n == Min(Floor(capital * config.RISK_PER_TRADE,
                              close * config.STOP_LOSS_PCT),
                        Floor(config.MAX_POSITION_SIZE, close))
           IN  IF n > 0 /\ capital >= n * close
               THEN /\ position' = <<[shares |-> n, entry_price |-> close,
                                      entry_time |-> Row.idx]>>
                    /\ capital' = capital - n * close
                    /\ trades' = trades
               ELSE /\ position' = position
                    /\ capital' = capital
                    /\ trades' = trades]_vars

\* a Buy while Flat whose risk-sized share count is positive but costs more
\* than the cash, so that nothing is bought
C5_Witness ==
    /\ pc = "equity"
    /\ Row.signal = 1
    /\ position = <<>>
    /\ Row.close * config.STOP_LOSS_PCT > 0
    /\ LET n == Min(Floor(capital * config.RISK_PER_TRADE,
                          Row.close * config.STOP_LOSS_PCT),
                    Floor(config.MAX_POSITION_SIZE, Row.close))
       IN  n > 0 /\ capital < n * Row.close /\ capital >= Row.close

\* sizing of the claims: risk_per_share <= 0 or shares <= 0
SizingSkips(cap, close) ==
    \/ close * config.STOP_LOSS_PCT <= 0
    \/ Min(Floor(cap * config.RISK_PER_TRADE, close * config.STOP_LOSS_PCT),
           Floor(config.MAX_POSITION_SIZE, close)) <= 0

\* C6: a Buy while Flat whose sizing yields shares <= 0 or
\* risk_per_share <= 0 is skipped: position, capital and ledger are
\* unchanged and the bar's equity point is the unchanged capital.
C6_SkippedBuy ==
    [][/\ (pc = "entry" /\ Row.signal = 1 /\ position = <<>>
             /\ SizingSkips(capital, Row.close))
          => (position' = <<>> /\ capital' = capital /\ trades' = trades
              /\ pc' = "equity")
       /\ (pc = "equity" /\ Row.signal = 1 /\ position = <<>>
             /\ SizingSkips(capital, Row.close))
          => portfolio_values' = Append(portfolio_values, capital)]_vars

C6_Witness ==
    /\ pc = "loop"
    /\ Len(df) > 0
    /\ Row.signal = 1
    /\ Row.close > 0
    /\ position = <<>>
    /\ SizingSkips(capital, Row.close)
    /\ portfolio_values[Len(df)] = capital

\* C7: while Long the stop-loss / take-profit check runs before the signal:
\* when close <= stop level or close >= take-profit level of the position's
\* entry price the position is closed at close, cash is credited
\* shares x close, and the trade's reason is stop_loss if close <= stop level
\* and take_profit otherwise; a Sell signal on that bar records no trade.
C7_StopTakeProfitFirst ==
    [][/\ (pc = "check_exit" /\ position # <<>>)
          => LET p == position[1]
                 close == Row.close
                 stop == close * 100 <= p.entry_price * (100 - config.STOP_LOSS_PCT)
                 take == close * 100 >= p.entry_price * (100 + config.TAKE_PROFIT_PCT)
             IN  IF stop \/ take
                 THEN /\ position' = <<>>
                      /\ capital' = capital + p.shares * close
                      /\ Len(trades') = Len(trades) + 1
                      /\ \A i \in 1..Len(trades) : trades'[i] = trades[i]
                      /\ trades'[Len(trades')].entry_time = p.entry_time
                      /\ trades'[Len(trades')].entry_price = p.entry_price
                      /\ trades'[Len(trades')].shares = p.shares
                      /\ trades'[Len(trades')].exit_time = Row.idx
                      /\ trades'[Len(trades')].exit_price = close
                      /\ trades'[Len(trades')].exit_reason =
                            (IF stop THEN "stop_loss" ELSE "take_profit")
                 ELSE position' = position /\ capital' = capital /\ trades' = trades
       /\ (pc = "entry" /\ Row.signal = -1 /\ Len(trades) > 0
             /\ LastTrade.exit_time = Row.idx)
          => (trades' = trades /\ capital' = capital /\ position' = position)]_vars

\* a bar with a Sell signal on which both levels were crossed
C7_Witness ==
    /\ pc = "equity"
    /\ Row.signal = -1
    /\ Len(trades) > 0
    /\ LastTrade.exit_time = Row.idx
    /\ LastTrade.exit_reason = "stop_loss"
    /\ LastTrade.exit_price * 100 >=
          LastTrade.entry_price * (100 + config.TAKE_PROFIT_PCT)

\* C8: the run ends with the position held after the last bar converted
\* into a trade at the final close; the last equity point is overwritten
\* with the resulting cash, which equals the point's value before.
C8_EndOfRunClose ==
    [][pc' = "done"
        => /\ IF position # <<>>
              THEN LET n == Len(df)
                       p == position[1]
                   IN  /\ capital' = capital + p.shares * df[n].close
                       /\ Len(trades') = Len(trades) + 1
                       /\ \A i \in 1..Len(trades) : trades'[i] = trades[i]
                       /\ trades'[Len(trades')].entry_time = p.entry_time
                       /\ trades'[Len(trades')].shares = p.shares
                       /\ trades'[Len(trades')].exit_price = df[n].close
                       /\ trades'[Len(trades')].exit_time = df[n].idx
                       /\ Len(portfolio_values') = n
                       /\ portfolio_values'[n] = capital'
                       /\ capital' = portfolio_values[n]
              ELSE capital' = capital /\ trades' = trades
                   /\ portfolio_values' = portfolio_values
           /\ Len(df) > 0 => portfolio_values'[Len(df)] = capital']_vars

C8_Witness ==
    /\ pc = "done"
    /\ position # <<>>
    /\ Len(df) >= 2
    /\ position[1].entry_time < Len(df)
    /\ df[1].close # df[Len(df)].close
    /\ LastTrade.entry_time = position[1].entry_time
    /\ portfolio_values[Len(df)] = capital

\* C9 as stated: every exit_reason is one of stop_loss, take_profit, signal,
\* end_of_period.
C9_Original ==
    \A i \in 1..Len(trades) :
        trades[i].exit_reason \in {"stop_loss", "take_profit", "signal", "end_of_period"}

\* C9 amended: every exit_reason is one of stop_loss, take_profit, signal,
\* end_of_backtest, and the trade made by the close after the last bar
\* carries end_of_backtest.
C9_ExitReasons ==
    /\ \A i \in 1..Len(trades) :
          trades[i].exit_reason \in
              {"stop_loss", "take_profit", "signal", "end_of_backtest"}
    /\ (pc = "done" /\ position # <<>>)
          => LastTrade.exit_reason = "end_of_backtest"
    /\ \A i \in 1..Len(trades) :
          trades[i].exit_reason = "end_of_backtest"
              => (pc \in {"done", "returned"} /\ i = Len(trades))

C9_Witness ==
    /\ pc = "done"
    /\ position # <<>>
    /\ Len(trades) >= 2
    /\ LastTrade.exit_reason = "end_of_backtest"

\* C10: the equity curve has one point per bar, in bar order, and the point
\* recorded for a bar is cash plus shares x close of the position open after
\* the bar's exits and entries, or cash alone when there is none; recorded
\* points of earlier bars stay as they are.
C10_EquityCurve ==
    [][/\ pc' \in {"loop", "close_remaining", "done"}
             => Len(portfolio_values') = Len(df')
       /\ pc' \in {"check_exit", "entry", "equity"}
             => Len(portfolio_values') = Len(df') - 1
       /\ \A i \in 1..Len(df') : df'[i].idx = i
       /\ pc = "equity"
             => /\ Len(portfolio_values') = Len(df)
                /\ portfolio_values'[Len(df)] =
                      (IF position = <<>> THEN capital
                       ELSE capital + position[1].shares * df[Len(df)].close)
       /\ pc # "close_remaining"
             => \A i \in 1..Len(portfolio_values) :
                   portfolio_values'[i] = portfolio_values[i]]_vars

C10_Witness ==
    /\ pc = "loop"
    /\ Len(df) >= 2
    /\ position # <<>>
    /\ position[1].entry_time < Len(df)
    /\ portfolio_values[Len(df)] =
          capital + position[1].shares * df[Len(df)].close
    /\ portfolio_values[Len(df)] # portfolio_values[Len(df) - 1]

-----------------------------------------------------------------------------
(* Properties of the accounting, the metrics and the construction *)

RECURSIVE SumPnl(_, _)
\* sum of pnl over the first k trades of a ledger
SumPnl(trds, k) == IF k = 0 THEN 0 ELSE SumPnl(trds, k - 1) + trds[k].pnl

\* C11: accounting is conserved: final_capital is initial_capital plus the
\* sum of pnl over the ledger, and the equity point of every bar is
\* initial_capital plus the pnl realized so far plus
\* (close - entry_price) x shares of the open position, if any.
C11_AccountingConserved ==
    /\ results # <<>>
          => results[1].final_capital =
                initial_capital + SumPnl(trades, Len(trades))
    /\ (pc \in {"loop", "close_remaining"} /\ Len(df) > 0)
          => portfolio_values[Len(df)] =
                initial_capital + SumPnl(trades, Len(trades))
                + (IF position = <<>> THEN 0
                   ELSE (df[Len(df)].close - position[1].entry_price)
                           * position[1].shares)
    /\ (pc \in {"done", "returned"} /\ Len(df) > 0)
          => portfolio_values[Len(df)] =
                initial_capital + SumPnl(trades, Len(trades))

C11_Witness ==
    /\ results # <<>>
    /\ Len(trades) >= 2
    /\ SumPnl(trades, Len(trades)) < 0
    /\ \E i \in 1..Len(trades) : trades[i].shares > 1 /\ trades[i].pnl # 0

\* C12: cash never goes negative: capital >= 0 after every step of every
\* run, hence final_capital >= 0.
C12_CashNonNegative ==
    /\ capital >= 0
    /\ results # <<>> => results[1].final_capital >= 0

C12_Witness ==
    /\ capital = 0
    /\ position # <<>>
    /\ pc = "equity"

ResultFields ==
    {"initial_capital", "final_capital", "total_return", "total_return_pct",
     "num_trades", "win_rate", "avg_return", "max_drawdown", "trades",
     "portfolio_value"}

\* C13: a run that records no trade returns a fully populated record with
\* the fields of a run with trades: final_capital = initial_capital,
\* total_return, total_return_pct, num_trades, win_rate, avg_return and
\* max_drawdown all 0, and an empty trade list.
C13_NoTradeMetrics ==
    results # <<>> =>
        /\ DOMAIN results[1] = ResultFields
        /\ trades = <<>> =>
              /\ results[1].initial_capital = initial_capital
              /\ results[1].final_capital = initial_capital
              /\ results[1].total_return = 0
              /\ results[1].total_return_pct.num = 0
              /\ results[1].num_trades = 0
              /\ results[1].win_rate.num = 0
              /\ results[1].avg_return.num = 0
              /\ results[1].max_drawdown.num = 0
              /\ results[1].trades = <<>>
              /\ results[1].total_return_pct.den > 0
              /\ results[1].win_rate.den > 0
              /\ results[1].avg_return.den > 0
              /\ results[1].max_drawdown.den > 0

C13_Witness ==
    /\ results # <<>>
    /\ trades = <<>>
    /\ Len(df) >= 2
    /\ \E i \in 1..Len(df) : df[i].signal = 1 /\ df[i].close > 0

\* C14: if every bar's signal is Hold the simulator stays Flat for the
\* whole run, records no trade, and every equity point equals
\* initial_capital.
C14_AllHold ==
    (\A i \in 1..Len(df) : df[i].signal = 0)
        => /\ position = <<>>
           /\ trades = <<>>
           /\ capital = initial_capital
           /\ \A i \in 1..Len(portfolio_values) :
                 portfolio_values[i] = initial_capital
           /\ results # <<>> =>
                 (results[1].num_trades = 0
                  /\ results[1].final_capital = initial_capital)

C14_Witness ==
    /\ pc = "returned"
    /\ Len(df) >= 2
    /\ \A i \in 1..Len(df) : df[i].signal = 0
    /\ df[1].close # df[2].close
    /\ Len(portfolio_values) = Len(df)

\* C15: for a non-empty ledger win_rate = 100 x (number of trades with
\* pnl > 0) / num_trades, so a break-even trade is not a win and win_rate is
\* within [0, 100]; for two trades with pnl +20 and -20 (return_pct +2 and
\* -2) win_rate is 50 and avg_return is 0.
C15_WinRate ==
    results # <<>> =>
        LET r == results[1]
            wins == Cardinality({i \in 1..Len(trades) : trades[i].pnl > 0})
        IN  /\ r.win_rate.den > 0
            /\ r.win_rate.num >= 0
            /\ r.win_rate.num <= 100 * r.win_rate.den
            /\ trades # <<>> =>
                  r.win_rate.num * Len(trades) = 100 * wins * r.win_rate.den
            /\ (Len(trades) = 2 /\ trades[1].pnl = 20 /\ trades[2].pnl = -20
                  /\ trades[1].return_pct.num = 2 * trades[1].return_pct.den
                  /\ trades[2].return_pct.num = -2 * trades[2].return_pct.den)
                  => (r.win_rate.num = 50 * r.win_rate.den
                      /\ r.avg_return.num = 0)

C15_Witness ==
    /\ results # <<>>
    /\ Len(trades) = 2
    /\ trades[1].pnl = 20
    /\ trades[2].pnl = -20
    /\ trades[1].return_pct.num = 2 * trades[1].return_pct.den
    /\ trades[2].return_pct.num = -2 * trades[2].return_pct.den

\* the running peak of a curve at position t
PeakAt(pv, t) == CHOOSE m \in {pv[s] : s \in 1..t} : \A s \in 1..t : m >= pv[s]

\* C16: max_drawdown is the minimum over bars of
\* (equity - running peak) / running peak x 100; it is <= 0, and it is 0
\* exactly when equity never falls below its running peak.
C16_MaxDrawdown ==
    results # <<>> =>
        LET md == results[1].max_drawdown
            pv == portfolio_values
            n  == Len(portfolio_values)
        IN  /\ md.den > 0
            /\ md.num <= 0
            /\ md.num = 0 <=> (\A t \in 1..n : \A s \in 1..t : pv[t] >= pv[s])
            /\ \A t \in 1..n :
                  md.num * PeakAt(pv, t) <= (pv[t] - PeakAt(pv, t)) * 100 * md.den
            /\ n > 0 => \E t \in 1..n :
                  md.num * PeakAt(pv, t) = (pv[t] - PeakAt(pv, t)) * 100 * md.den

C16_Witness ==
    /\ results # <<>>
    /\ trades # <<>>
    /\ Len(portfolio_values) = 3
    /\ portfolio_values[1] < portfolio_values[2]
    /\ portfolio_values[3] < portfolio_values[1]
    /\ results[1].max_drawdown.num < 0

\* C17: across the ledger of a run at most one trade has a given entry_time
\* and at most one trade has a given exit_time.
C17_OnePairPerBar ==
    \A i, j \in 1..Len(trades) :
        i # j => /\ trades[i].entry_time # trades[j].entry_time
                 /\ trades[i].exit_time # trades[j].exit_time

\* C18: every position opened is converted into exactly one trade by the
\* end of the run; the ledger only grows by appending, a recorded trade is
\* never modified or removed, and num_trades is the ledger length.
C18_LedgerAppendOnly ==
    [][/\ Len(trades') >= Len(trades)
       /\ Len(trades') <= Len(trades) + 1
       /\ \A i \in 1..Len(trades) : trades'[i] = trades[i]
       /\ (position = <<>> /\ position' # <<>>)
             => /\ trades' = trades
                /\ \A i \in 1..Len(trades) :
                      trades[i].entry_time # position'[1].entry_time
       /\ (position # <<>> /\ (position' # position \/ pc' = "done"))
             => /\ Len(trades') = Len(trades) + 1
                /\ trades'[Len(trades')].entry_time = position[1].entry_time
                /\ trades'[Len(trades')].entry_price = position[1].entry_price
                /\ trades'[Len(trades')].shares = position[1].shares
       /\ Len(trades') = Len(trades) + 1 => position # <<>>
       /\ results' # <<>>
             => /\ results'[1].num_trades = Len(trades')
                /\ results'[1].trades = trades']_vars

C18_Witness ==
    /\ pc = "returned"
    /\ Len(trades) = 2
    /\ results[1].num_trades = 2
    /\ trades[1].entry_time < trades[2].entry_time

KnownNames == {"conservative", "balanced", "aggressive"}

\* C19 as stated: a strategy_name other than conservative, balanced or
\* aggressive makes the construction fail before anything is fetched.
C19_Original ==
    (backtester.state # "new" /\ strategy_name \notin KnownNames)
        => (backtester.state = "ValueError" /\ pc = "idle")

\* C19 amended: with no strategy instance given, a strategy_name whose
\* lower-case form is other than conservative, balanced or aggressive makes
\* the construction fail with ValueError before anything is fetched, and a
\* name whose lower-case form is one of the three gives the profile
\* registered under it; a failed construction never starts a run.
C19_UnknownStrategy ==
    /\ (backtester.state # "new" /\ strategy_arg = <<>>)
          => IF Lower(strategy_name) \in KnownNames
             THEN /\ backtester.state = "ok"
                  /\ backtester.strategy =
                        (CASE Lower(strategy_name) = "conservative" -> "Conservative"
                           [] Lower(strategy_name) = "balanced"     -> "Balanced"
                           [] Lower(strategy_name) = "aggressive"   -> "Aggressive")
             ELSE backtester.state = "ValueError"
    /\ backtester.state # "ok" => pc = "idle"

C19_Witness ==
    /\ backtester.state = "ValueError"
    /\ strategy_name = "momentum"
    /\ strategy_arg = <<>>
    /\ pc = "idle"

\* C20: a configuration with a non-positive stop_loss_pct, take_profit_pct,
\* risk_per_trade fraction or max position notional is rejected before any
\* computation: no Backtester is constructed with it and no run starts.
C20_ConfigRejected ==
    (\/ config.STOP_LOSS_PCT <= 0
     \/ config.TAKE_PROFIT_PCT <= 0
     \/ config.RISK_PER_TRADE <= 0
     \/ config.MAX_POSITION_SIZE <= 0)
        => (backtester.state # "ok" /\ pc = "idle")


-----------------------------------------------------------------------------
(* Properties of the signal rules *)

\* C25: an undefined indicator never makes a condition true.  The row gets
\* exactly one signal of {-1, 0, 1}; a row on which no indicator is defined
\* gets Hold under every profile; a Buy needs rsi, fast_ma and slow_ma
\* defined and also rsi_prev or both previous averages; a Sell needs rsi
\* defined or all four averages defined (the crossover).
C25_UndefinedIsHold ==
    signal # <<>> =>
        LET r == indicators
            mas == {r.fast_ma, r.slow_ma, r.fast_ma_prev, r.slow_ma_prev}
        IN  /\ Len(signal) = 1
            /\ signal[1] \in {-1, 0, 1}
            /\ (IsNaN(r.rsi) /\ IsNaN(r.rsi_prev) /\ \A m \in mas : IsNaN(m))
                  => signal[1] = 0
            /\ signal[1] = 1 =>
                  /\ ~IsNaN(r.rsi) /\ ~IsNaN(r.fast_ma) /\ ~IsNaN(r.slow_ma)
                  /\ \/ ~IsNaN(r.rsi_prev)
                     \/ ~IsNaN(r.fast_ma_prev) /\ ~IsNaN(r.slow_ma_prev)
            /\ (signal[1] = 1 /\ strategy = "conservative") =>
                  ~IsNaN(r.rsi_prev) /\ \A m \in mas : ~IsNaN(m)
            /\ signal[1] = -1 =>
                  ~IsNaN(r.rsi) \/ \A m \in mas : ~IsNaN(m)

C25_Witness ==
    /\ signal = <<0>>
    /\ strategy = "aggressive"
    /\ ~IsNaN(indicators.rsi)
    /\ indicators.rsi.num > 40 /\ indicators.rsi.num < 65
    /\ IsNaN(indicators.rsi_prev)
    /\ Gt(indicators.fast_ma, indicators.slow_ma)
    /\ IsNaN(indicators.fast_ma_prev)
    /\ Gt(indicators.close, indicators.fast_ma)

\* C27: under Balanced and TradingStrategy a row is Sell exactly when
\* rsi > overbought or the averages cross downwards, and Buy exactly when it
\* is no Sell, close > slow_ma and the RSI recovers above oversold with
\* fast_ma > slow_ma or the averages cross upwards with
\* oversold < rsi < overbought; every Buy row has rsi > oversold and
\* fast_ma > slow_ma.
C27_BalancedRule ==
    (signal # <<>> /\ strategy \in {"balanced", "trading_strategy"}) =>
        LET r == indicators
            oversold == Num(30)
            overbought == Num(70)
            sell == \/ Gt(r.rsi, overbought)
                    \/ Lt(r.fast_ma, r.slow_ma) /\ Ge(r.fast_ma_prev, r.slow_ma_prev)
            entry == \/ /\ Gt(r.rsi, oversold) /\ Le(r.rsi_prev, oversold)
                        /\ Gt(r.fast_ma, r.slow_ma)
                     \/ /\ Gt(r.fast_ma, r.slow_ma)
                        /\ Le(r.fast_ma_prev, r.slow_ma_prev)
                        /\ Gt(r.rsi, oversold) /\ Lt(r.rsi, overbought)
        IN  /\ signal[1] = -1 <=> sell
            /\ signal[1] = 1 <=> (~sell /\ Gt(r.close, r.slow_ma) /\ entry)
            /\ signal[1] = 1 => Gt(r.rsi, oversold) /\ Gt(r.fast_ma, r.slow_ma)

C27_Witness ==
    /\ signal = <<1>>
    /\ strategy = "balanced"
    /\ Gt(indicators.rsi_prev, Num(30))
    /\ Le(indicators.fast_ma_prev, indicators.slow_ma_prev)

\* the buy condition of the Aggressive profile as the claim C28 words it
C28_ClaimedBuy(r) ==
    LET oversold == Num(35)
        overbought == Num(65)
    IN  \/ /\ \/ /\ Gt(r.rsi, oversold) /\ Le(r.rsi_prev, oversold)
                 /\ Gt(r.fast_ma, r.slow_ma)
              \/ /\ Gt(r.fast_ma, r.slow_ma)
                 /\ Le(r.fast_ma_prev, r.slow_ma_prev)
                 /\ Gt(r.rsi, oversold) /\ Lt(r.rsi, overbought)
           /\ Gt(r.close, r.slow_ma)
        \/ /\ Gt(r.fast_ma, r.slow_ma) /\ Gt(r.close, r.fast_ma)
           /\ Gt(r.rsi, Num(40)) /\ Lt(r.rsi, overbought)
           /\ Gt(r.rsi, r.rsi_prev)

\* the sell condition of the Aggressive profile as the claim C28 words it
C28_ClaimedSell(r) ==
    \/ Gt(r.rsi, Num(65))
    \/ Lt(r.fast_ma, r.slow_ma) /\ Ge(r.fast_ma_prev, r.slow_ma_prev)
    \/ Lt(r.rsi, Num(35))

\* C28 as stated: under Aggressive a row is Sell exactly on the claimed sell
\* condition and Buy exactly on the claimed buy condition when it is no Sell.
C28_Original ==
    (signal # <<>> /\ strategy = "aggressive") =>
        /\ signal[1] = -1 <=> C28_ClaimedSell(indicators)
        /\ signal[1] = 1 <=>
              (~C28_ClaimedSell(indicators) /\ C28_ClaimedBuy(indicators))

\* C28: under Aggressive a row is Sell exactly when rsi > overbought, the
\* averages cross downwards or rsi < oversold; it is Buy exactly when it is
\* no Sell, close > slow_ma, and the RSI recovers above oversold with
\* fast_ma > slow_ma, or the averages cross upwards with rsi < overbought
\* (no lower bound on rsi), or fast_ma > slow_ma, close > fast_ma,
\* 40 < rsi < overbought and rsi > rsi_prev.
C28_AggressiveRule ==
    (signal # <<>> /\ strategy = "aggressive") =>
        LET r == indicators
            oversold == Num(35)
            overbought == Num(65)
            entry == \/ /\ Gt(r.rsi, oversold) /\ Le(r.rsi_prev, oversold)
                        /\ Gt(r.fast_ma, r.slow_ma)
                     \/ /\ Gt(r.fast_ma, r.slow_ma)
                        /\ Le(r.fast_ma_prev, r.slow_ma_prev)
                        /\ Lt(r.rsi, overbought)
                     \/ /\ Gt(r.fast_ma, r.slow_ma) /\ Gt(r.close, r.fast_ma)
                        /\ Gt(r.rsi, Num(40)) /\ Lt(r.rsi, overbought)
                        /\ Gt(r.rsi, r.rsi_prev)
        IN  /\ signal[1] = -1 <=> C28_ClaimedSell(r)
            /\ signal[1] = 1 <=>
                  (~C28_ClaimedSell(r) /\ Gt(r.close, r.slow_ma) /\ entry)

C28_Witness ==
    /\ signal = <<1>>
    /\ strategy = "aggressive"
    /\ indicators.rsi = Num(35)
    /\ Gt(indicators.rsi_prev, Num(35))
    /\ Le(indicators.fast_ma_prev, indicators.slow_ma_prev)


-----------------------------------------------------------------------------
(* Properties of the Indicator Engine *)

\* C21: an empty frame, or one without one of the columns open, high, low,
\* close, volume, is rejected by analyze under every strategy, and nothing
\* is computed from it.
C21_RejectsIncomplete ==
    (analyzed.state # "new" /\ (IsEmpty(frame) \/ frame.columns # OHLCV))
        => (analyzed.state = "ValueError" /\ analyzed.rows = <<>>)

\* C22: a frame whose index has a repeated timestamp or is not in
\* chronological order is rejected by analyze, and no row is computed from it.
C22_RejectsDisorder ==
    (analyzed.state # "new"
        /\ \E i, j \in 1..Len(frame.index) : i < j /\ frame.index[i] >= frame.index[j])
        => (analyzed.state = "ValueError" /\ analyzed.rows = <<>>)

\* the first t bars of a frame
PrefixFrame(f, t) ==
    [f EXCEPT !.index = SubSeq(f.index, 1, t), !.close = SubSeq(f.close, 1, t)]

\* C26: signals have no lookahead.  The signal of bar t is the signal of its
\* own indicator row, and bar t has the same indicator row and the same
\* signal in the analysis of the first t bars alone as in the analysis of
\* the whole frame.
C26_NoLookahead ==
    analyzed.state = "ok" =>
        \A t \in 1..Len(analyzed.rows) :
            LET row == analyzed.rows[t]
                alone == Analyze(strategy, PrefixFrame(frame, t)).rows[t]
            IN  /\ row.signal = AssignSignals(BuyCondition(strategy, row.indicators),
                                              SellCondition(strategy, row.indicators))
                /\ row.indicators = alone.indicators
                /\ row.signal = alone.signal

C26_Witness ==
    /\ analyzed.state = "ok"
    /\ Len(analyzed.rows) = MaxFrame
    /\ \E t \in 1..(MaxFrame - 1) :
          /\ analyzed.rows[t].signal = 1
          /\ frame.close[t + 1] < frame.close[t]


-----------------------------------------------------------------------------
(* Properties of the multi-symbol scans *)

\* the symbols of a sequence of entries
SymbolsOf(entries) == [i \in 1..Len(entries) |-> entries[i].symbol]

\* the symbols of the log whose outcome is one of outcomes, in log order
Logged(outcomes) ==
    SymbolsOf(SelectSeq(scan_log, LAMBDA e : e.outcome \in outcomes))

Failures == {"fetch_error", "analyze_error"}

\* C23: a failure on one symbol does not abort a scan.  The loop handles the
\* symbols of the input list one after the other, so when it is over every
\* symbol has been handled; before the final sort each list holds the
\* symbols of its outcome in input order, the symbols whose handling failed
\* being absent; the returned lists hold the same symbols.
C23_FailureIsolated ==
    scan_pc \in {"loop", "returned"} =>
        /\ scan_i <= Len(symbols) + 1
        /\ SymbolsOf(scan_log) = SubSeq(symbols, 1, scan_i - 1)
        /\ scan_pc = "returned" => scan_i = Len(symbols) + 1
        /\ scan_pc = "loop" =>
              /\ SymbolsOf(scan_results.results) = Logged({"analyzed", "cached", "fetched"})
              /\ SymbolsOf(scan_results.buy_candidates) = Logged({"buy_candidates"})
              /\ SymbolsOf(scan_results.sell_candidates) = Logged({"sell_candidates"})
              /\ SymbolsOf(scan_results.watch_list) = Logged({"watch_list"})
        /\ \A l \in DOMAIN scan_results :
              LET kept == {scan_results[l][i].symbol : i \in 1..Len(scan_results[l])}
                  failed == {scan_log[i].symbol :
                               i \in {k \in 1..Len(scan_log) : scan_log[k].outcome \in Failures}}
              IN  /\ kept \cap failed = {}
                  /\ Cardinality(kept) = Len(scan_results[l])
        /\ LET kept == UNION {{scan_results[l][i].symbol : i \in 1..Len(scan_results[l])}
                                 : l \in DOMAIN scan_results}
           IN  kept = {scan_log[i].symbol :
                          i \in {k \in 1..Len(scan_log) :
                                    scan_log[k].outcome \notin Failures \cup {"none"}}}

C23_Witness ==
    /\ scan_pc = "returned"
    /\ scan = "identify_potential_stocks"
    /\ Len(symbols) = 3
    /\ scan_log[1].outcome = "fetch_error"
    /\ scan_log[2].outcome = "analyzed"
    /\ scan_log[3].outcome = "analyzed"
    /\ SymbolsOf(scan_results.results) = <<symbols[3], symbols[2]>>


-----------------------------------------------------------------------------
(* Properties of repeated runs and of the monitoring *)

C30_NoLostUpdate ==
    (\A t \in Threads : mon_threads[t].pc = "idle") =>
        /\ metrics["api_calls"] = mon_calls.record_metric
        /\ metrics["total_errors"] = mon_calls.record_error
        /\ metrics["errors_data_fetch"] = mon_calls.record_error


-----------------------------------------------------------------------------
(* Scenario B *)

\* the frame read is a rising series of positive closes whose only signal is
\* a Buy on bar k, with stop loss 2%, take profit 4% and capital for one share
ScenarioB(k) ==
    /\ \A i \in 1..Len(df) :
          df[i].close > 0 /\ df[i].signal = (IF i = k THEN 1 ELSE 0)
    /\ \A i \in 1..(Len(df) - 1) : df[i].close < df[i + 1].close
    /\ config.STOP_LOSS_PCT = 2
    /\ config.TAKE_PROFIT_PCT = 4
    /\ initial_capital >= df[k].close

\* some close after bar k is at least 1.04 times the close of bar k
ReachesTakeProfit(k) ==
    \E j \in (k + 1)..Len(df) : df[j].close * 100 >= 104 * df[k].close

-----------------------------------------------------------------------------
(* Properties of the Trader *)

Orders == {"place_order", "close_position"}

\* C31: check_and_execute submits no order when dry_run is True, and when
\* the market is closed it returns action market_closed and has made no
\* call but is_market_open, in either mode.
C31_DryRunNoOrder ==
    trader_pc = "returned" =>
        /\ dry_run => \A i \in 1..Len(calls) : calls[i] \notin Orders
        /\ ~market_open =>
              /\ result[1].action = "market_closed"
              /\ calls = <<"is_market_open">>

C31_Witness ==
    /\ trader_pc = "returned"
    /\ dry_run
    /\ market_open
    /\ signal_info.signal = "sell"
    /\ symbol_position # <<>>
    /\ result[1].action = "sell_signal"

\* C39: whenever the market is open the returned dict has an 'action' and a
\* 'message' entry.
C39_ActionAndMessage ==
    (trader_pc = "returned" /\ market_open) =>
        {"action", "message"} \subseteq DOMAIN result[1]


-----------------------------------------------------------------------------
(* Properties of DataCache.fetch_and_cache *)

ProviderCalled == {"fetched", "fetch_error"}

\* what the claim says of one iteration of the loop of fetch_and_cache
C32_Iteration ==
    (scan = "fetch_and_cache" /\ scan_pc = "loop" /\ scan_i' = scan_i + 1) =>
        LET symbol == symbols[scan_i]
            stale == \/ symbol \notin DOMAIN memory_cache
                     \/ cache_metadata[symbol].period # period
                     \/ now - cache_metadata[symbol].fetched_at > 15
            outcome == scan_log'[Len(scan_log')].outcome
        IN  /\ outcome \in ProviderCalled <=> stale
            /\ outcome = "cached" =>
                  /\ UNCHANGED <<memory_cache, cache_metadata>>
                  /\ scan_results'.results[Len(scan_results'.results)].frame
                        = memory_cache[symbol]
            /\ outcome = "fetched" =>
                  /\ memory_cache'[symbol] = [symbol |-> symbol, period |-> period, at |-> now]
                  /\ cache_metadata'[symbol] = [fetched_at |-> now, period |-> period]
                  /\ scan_results'.results[Len(scan_results'.results)].frame
                        = memory_cache'[symbol]

\* the second call has the arguments of the first and began within 15 minutes
SecondFetchInTime ==
    /\ fetch_no = 2
    /\ symbols = first_fetch[1].symbols
    /\ period = first_fetch[1].period
    /\ now - first_fetch[1].started <= 15

\* C32 as stated: in particular the second fetch of the same symbols and
\* period within 15 minutes makes no provider call.
C32_Original ==
    /\ [][C32_Iteration]_vars
    /\ [](SecondFetchInTime =>
            \A i \in 1..Len(scan_log) : scan_log[i].outcome \notin ProviderCalled)

\* C32: the provider is called for a symbol iff it has no entry, or an entry
\* of another period, or an entry older than 15 minutes; otherwise the cached
\* frame is returned and the cache is left alone; a refetch overwrites data
\* and metadata; a second fetch of the same symbols and period within 15
\* minutes makes no provider call for the symbols the first fetch returned.
C32_CacheValidity ==
    /\ [][C32_Iteration]_vars
    /\ [](SecondFetchInTime =>
            \A i \in 1..Len(scan_log) :
                first_fetch[1].log[i].outcome = "fetched" =>
                    scan_log[i].outcome \notin ProviderCalled)

C32_Witness ==
    /\ SecondFetchInTime
    /\ scan_pc = "returned"
    /\ now - first_fetch[1].started = 15
    /\ Len(symbols) = 2
    /\ first_fetch[1].log[1].outcome = "fetched"
    /\ first_fetch[1].log[2].outcome = "fetch_error"
    /\ scan_log[1].outcome = "cached"
    /\ scan_log[2].outcome = "fetched"


-----------------------------------------------------------------------------
(* Properties of OHLCVValidator *)

\* what the claim says of a frame that is_valid accepts
CleanFrame(f) ==
    /\ \A i \in 1..Len(f.rows) :
          LET r == f.rows[i]
          IN  /\ \A col \in OHLCV : ~IsNaN(r[col])
              /\ \A col \in {"open", "high", "low", "close"} : Gt(r[col], Num(0))
              /\ Ge(r.volume, Num(0))
              /\ Ge(r.high, r.low)
              /\ Le(r.low, r.open) /\ Le(r.open, r.high)
              /\ Le(r.low, r.close) /\ Le(r.close, r.high)
    /\ f.object_cols = {}
    /\ f.index_type = "DatetimeIndex"
    /\ \A i, j \in 1..Len(f.index) : i # j => f.index[i] # f.index[j]

\* C33: validate(df, strict=True) raises iff validate(df, strict=False)
\* returns a non-empty list, the raised message is that of the first error
\* of the list, is_valid(df) is True exactly when the list is empty, and a
\* frame accepted by is_valid is clean.
C33_StrictMatchesLenient ==
    v_pc = "done" =>
        LET strict == strict_outcome[1]
            errs == lenient_outcome[1].errors
        IN  /\ ~lenient_outcome[1].raised
            /\ strict.raised <=> errs # <<>>
            /\ strict.raised => strict.message[2] = errs[1].message
            /\ is_valid_outcome[1] <=> errs = <<>>
            /\ is_valid_outcome[1] => CleanFrame(vframe)

C33_Witness ==
    /\ v_pc = "done"
    /\ Len(vframe.rows) = 2
    /\ Len(lenient_outcome[1].errors) >= 3
    /\ lenient_outcome[1].errors[1].error_type = "null_values"
    /\ strict_outcome[1].raised
    /\ ~is_valid_outcome[1]

C33_WitnessAccepted ==
    /\ v_pc = "done"
    /\ Len(vframe.rows) = 2
    /\ is_valid_outcome[1]
    /\ ~strict_outcome[1].raised


-----------------------------------------------------------------------------
(* Properties of the indicators *)

\* C34: on every bar on which RSI is defined, 0 <= rsi <= 100.
C34_RsiRange ==
    analyzed.state = "ok" =>
        \A t \in 1..Len(analyzed.rows) :
            LET rsi == analyzed.rows[t].indicators.rsi
            IN  ~IsNaN(rsi) => Ge(rsi, Num(0)) /\ Le(rsi, Num(100))

C34_Witness ==
    /\ analyzed.state = "ok"
    /\ Len(analyzed.rows) = MaxFrame
    /\ \E t \in 1..Len(analyzed.rows) :
          LET rsi == analyzed.rows[t].indicators.rsi
          IN  Gt(rsi, Num(0)) /\ Lt(rsi, Num(100))
    /\ \E t \in 1..Len(analyzed.rows) : analyzed.rows[t].indicators.rsi = Num(100)
    /\ \E t \in 1..Len(analyzed.rows) : IsNaN(analyzed.rows[t].indicators.rsi)


-----------------------------------------------------------------------------
(* Properties of the exits and of the order of the steps of a bar *)

\* C35: a stop_loss trade has exit_price <= entry_price x (1 - stop_loss_pct),
\* a take_profit trade has exit_price >= entry_price x (1 + take_profit_pct),
\* and a trade closed by a Sell signal or by the close after the last bar
\* has its exit_price strictly between the two levels.
C35_ExitBounds ==
    \A i \in 1..Len(trades) :
        LET t == trades[i]
            stop_level100 == t.entry_price * (100 - config.STOP_LOSS_PCT)
            profit_level100 == t.entry_price * (100 + config.TAKE_PROFIT_PCT)
        IN  /\ t.exit_reason = "stop_loss" => t.exit_price * 100 <= stop_level100
            /\ t.exit_reason = "take_profit" => t.exit_price * 100 >= profit_level100
            /\ t.exit_reason \in {"signal", "end_of_backtest"} =>
                  /\ t.exit_price * 100 > stop_level100
                  /\ t.exit_price * 100 < profit_level100

\* a trade was recorded on the current bar
ExitedThisBar ==
    /\ trades # <<>>
    /\ trades[Len(trades)].exit_time = df[Len(df)].idx

\* the shares a Buy at close buys with cash (0 when it buys nothing)
Bought(cash, close) ==
    IF close * config.STOP_LOSS_PCT <= 0
    THEN 0
    ELSE LET n == Min(IntTrunc(cash * config.RISK_PER_TRADE, close * config.STOP_LOSS_PCT),
                      IntTrunc(config.MAX_POSITION_SIZE, close))
         IN  IF n > 0 /\ cash >= n * close THEN n ELSE 0

\* a position is never opened and closed by the loop on the same bar
NoRoundTripInOneBar ==
    \A i \in 1..Len(trades) :
        trades[i].exit_reason # "end_of_backtest" =>
            trades[i].entry_time < trades[i].exit_time

\* C36 as stated: after the entry step of a bar that closed a position by
\* stop-loss or take-profit and whose signal is Buy, a position opened on
\* this bar is open; after a Sell-signal exit the simulator is Flat.
C36_Original ==
    pc = "equity" =>
        /\ (ExitedThisBar
              /\ trades[Len(trades)].exit_reason \in {"stop_loss", "take_profit"}
              /\ df[Len(df)].signal = 1) =>
                 /\ position # <<>>
                 /\ position[1].entry_time = df[Len(df)].idx
                 /\ position[1].entry_price = df[Len(df)].close
        /\ (ExitedThisBar /\ trades[Len(trades)].exit_reason = "signal") =>
                 position = <<>>
        /\ NoRoundTripInOneBar

\* C36: the steps of a bar run in the order exit-check, entry, signal-exit,
\* equity.  On a bar that closes a position by stop-loss or take-profit and
\* whose signal is Buy the entry step runs with the cash after the exit: if
\* the sizing buys n > 0 shares a new position of n shares is opened at the
\* same close and the bar ends Long, otherwise the bar ends Flat.  A bar
\* that closes a position by a Sell signal ends Flat, and the loop never
\* opens and closes a position on the same bar.
C36_IntraBarOrder ==
    pc = "equity" =>
        /\ (ExitedThisBar
              /\ trades[Len(trades)].exit_reason \in {"stop_loss", "take_profit"}
              /\ df[Len(df)].signal = 1) =>
                 LET close == df[Len(df)].close
                     cash == IF position = <<>> THEN capital
                             ELSE capital + position[1].shares * close
                 IN  IF Bought(cash, close) > 0
                     THEN /\ position # <<>>
                          /\ position[1].entry_time = df[Len(df)].idx
                          /\ position[1].entry_price = close
                          /\ position[1].shares = Bought(cash, close)
                     ELSE position = <<>>
        /\ (ExitedThisBar /\ trades[Len(trades)].exit_reason = "signal") =>
                 position = <<>>
        /\ NoRoundTripInOneBar

C36_Witness ==
    /\ pc = "equity"
    /\ Len(df) = 2
    /\ df[2].signal = 1
    /\ Len(trades) = 1
    /\ trades[1].exit_reason = "stop_loss"
    /\ trades[1].exit_time = 2
    /\ position # <<>>
    /\ position[1].entry_time = 2
    /\ position[1].entry_price = df[2].close

\* a bar closes a position by stop-loss at a valid price, its signal is Buy,
\* and the cash after the exit does not afford the sized shares
C36_FlatAfterExit ==
    /\ pc = "equity"
    /\ ExitedThisBar
    /\ trades[Len(trades)].exit_reason = "stop_loss"
    /\ df[Len(df)].signal = 1
    /\ df[Len(df)].close > 0
    /\ config.STOP_LOSS_PCT > 0 /\ config.TAKE_PROFIT_PCT > 0
    /\ position = <<>>


-----------------------------------------------------------------------------
(* Properties of the profiles compared *)

\* the signal generate_signals of profile st gives the row r
SignalUnder(st, r) == AssignSignals(BuyCondition(st, r), SellCondition(st, r))

\* C37 as stated: a Conservative Buy row is a Balanced Buy row, a Balanced
\* Buy row is an Aggressive Buy row, and a Conservative or Balanced Sell row
\* is an Aggressive Sell row.
C37_Original ==
    signal # <<>> =>
        /\ (strategy = "conservative" /\ signal[1] = 1) =>
              SignalUnder("balanced", indicators) = 1
        /\ (strategy = "balanced" /\ signal[1] = 1) =>
              SignalUnder("aggressive", indicators) = 1
        /\ (strategy \in {"conservative", "balanced"} /\ signal[1] = -1) =>
              SignalUnder("aggressive", indicators) = -1

\* C37: a row that is Sell under Conservative is Sell under Balanced, and a
\* row that is Sell under Balanced is Sell under Aggressive.  The Buy rows
\* are not nested: a Conservative Buy row is a Balanced Buy row exactly when
\* 30 < rsi <= 70 (it is Hold under Balanced for rsi <= 30 and Sell for
\* rsi > 70); a Balanced Buy row is an Aggressive Buy row when 35 < rsi < 65
\* and an Aggressive Sell row when rsi < 35 or rsi > 65.
C37_ProfileOrder ==
    signal # <<>> =>
        LET rsi == indicators.rsi
        IN  /\ (strategy = "conservative" /\ signal[1] = 1) =>
                  /\ SignalUnder("balanced", indicators) = 1
                        <=> (Gt(rsi, Num(30)) /\ Le(rsi, Num(70)))
                  /\ Le(rsi, Num(30)) => SignalUnder("balanced", indicators) = 0
                  /\ Gt(rsi, Num(70)) => SignalUnder("balanced", indicators) = -1
            /\ (strategy = "balanced" /\ signal[1] = 1) =>
                  /\ (Gt(rsi, Num(35)) /\ Lt(rsi, Num(65))) =>
                        SignalUnder("aggressive", indicators) = 1
                  /\ (Lt(rsi, Num(35)) \/ Gt(rsi, Num(65))) =>
                        SignalUnder("aggressive", indicators) = -1
            /\ (strategy = "conservative" /\ signal[1] = -1) =>
                  SignalUnder("balanced", indicators) = -1
            /\ (strategy \in {"conservative", "balanced"} /\ signal[1] = -1) =>
                  SignalUnder("aggressive", indicators) = -1

C37_Witness ==
    /\ signal = <<1>>
    /\ strategy = "balanced"
    /\ indicators.rsi = Num(33)
    /\ SignalUnder("conservative", indicators) = 0
    /\ SignalUnder("aggressive", indicators) = -1

C37_WitnessConservative ==
    /\ signal = <<1>>
    /\ strategy = "conservative"
    /\ indicators.rsi = Num(28)
    /\ SignalUnder("balanced", indicators) = 0

C37_WitnessNested ==
    /\ signal = <<1>>
    /\ strategy = "conservative"
    /\ SignalUnder("balanced", indicators) = 1
    /\ SignalUnder("aggressive", indicators) = 1


-----------------------------------------------------------------------------
(* Properties of the counters of MonitoringSystem, one thread *)

\* the sum, over the categories d has entries for, of the counter under
\* key(category)
CategoryCounters(d, key(_)) ==
    SumOf([k \in 1..Len(Categories) |->
              IF d[Categories[k]] # <<>> THEN metrics[key(Categories[k])] ELSE 0],
          1, Len(Categories))

\* C38: after any sequence of record_error, record_warning, record_timing
\* and reset, total_errors is the sum of the errors_<category> counters of
\* the categories recorded and the number of stored error entries, the same
\* holds for warnings, <operation>_count is len(timings[operation]) for
\* every operation timed, and right after reset every counter reads 0 and
\* every list is empty.
C38_CountersAgree ==
    /\ metrics["total_errors"] = CategoryCounters(errors, ErrorsKey)
    /\ metrics["total_errors"] = Entries(errors, Categories)
    /\ metrics["total_warnings"] = CategoryCounters(warnings, WarningsKey)
    /\ metrics["total_warnings"] = Entries(warnings, Categories)
    /\ \A k \in 1..Len(Operations) :
          timings[Operations[k]] # <<>> =>
              metrics[CountKey(Operations[k])] = Len(timings[Operations[k]])
    /\ last_call = "reset" =>
          /\ \A key \in MetricKeys : metrics[key] = 0
          /\ Recorded = 0

\* the category fetch_count and the operation errors_fetch, which form the
\* same key, are not both in use
NoSharedKey ==
    errors["fetch_count"] = <<>> \/ timings["errors_fetch"] = <<>>

\* the counters agree as long as no two names form the same key
C38_AgreeOnDistinctKeys == NoSharedKey => C38_CountersAgree

====
